---- MODULE Spec2Model ----
(***************************************************************************)
(* Model of the Schwab transaction normalisation and reconciliation code   *)
(* of cgt_calc: parsers/schwab_util.py (AwardPrices) and                    *)
(* parsers/schwab.py (SchwabTransaction, the cash-merger unifier, the      *)
(* award reader, read_schwab_transactions and                              *)
(* read_schwab_combined_transactions).                                     *)
(*                                                                         *)
(* Conventions.  A Python Optional is a sequence: None is <<>> and a value *)
(* v is <<v>>.  A datetime.date is its day number (an integer; day n is    *)
(* 2024-01-n), so date - timedelta(days=i) is integer subtraction.  A      *)
(* Decimal read from a cell is an integer; the quotient of two Decimals is *)
(* an exact fraction <<numerator, denominator>> in lowest terms.  A dict   *)
(* is a function whose DOMAIN is the set of its keys.  A function that     *)
(* raises returns a record whose err field names the exception.            *)
(***************************************************************************)
EXTENDS Integers, Sequences, FiniteSets, TLC

VARIABLES
    \* AwardPrices.merge / AwardPrices.get
    ap_pc,            \* "init", "merged" or "got"
    ap_self,          \* self.award_prices
    ap_other,         \* other.award_prices (merge)
    ap_merged,        \* the table merge returned
    ap_date,          \* get's date argument
    ap_symbol,        \* get's symbol argument
    ap_got,           \* what get returned or raised
    \* _unify_schwab_cash_merger_trxs
    u_pc,             \* "idle", "loop", "returned" or "raised"
    u_transactions,   \* the transactions argument
    u_i,              \* index of the transaction the for loop takes next
    u_filtered,       \* the filtered buffer
    u_warnings,       \* ids of the transactions printed in the WARNING lines
    u_err,            \* the exception raised, "" if none
    u_result,         \* the list returned (Optional)
    \* _read_schwab_awards
    ra_pc,            \* "idle", "call" or "done"
    ra_file,          \* the schwab_award_transactions_file argument (Optional)
    ra_result,        \* what the call returned, printed or raised
    \* read_schwab_transactions
    rs_pc,            \* "idle", "call" or "done"
    rs_args,          \* the five arguments
    rs_result,        \* what the call returned, printed or raised
    \* read_schwab_combined_transactions
    rc_pc,            \* "idle", "start", "read", "done" or "raised"
    rc_args,          \* the arguments: the four paths and json
    rc_equity_transactions,   \* equity_transactions
    rc_award_prices,  \* award_prices
    rc_transactions,  \* transactions, as read_schwab_transactions returned it
    rc_warnings,      \* the WARNING and INFO lines printed
    rc_err,           \* the exception raised: [err, source]
    rc_result,        \* the list returned (Optional)
    \* _read_schwab_awards_all
    aa_pc,            \* "idle", "call" or "done"
    aa_file,          \* the schwab_award_transactions_file argument (Optional)
    aa_folder,        \* the *.csv files of the folder argument (a set)
    aa_order,         \* the order in which Path.glob yielded them
    aa_result,        \* what the call returned, printed or raised
    \* util.decimal_from_number_or_str
    dn_pc,            \* "idle", "call" or "done"
    dn_row,           \* the row argument (a dict)
    dn_basename,      \* field_basename
    dn_suffix,        \* field_float_suffix
    dn_result,        \* the Decimal returned, or the exception
    \* SchwabTransaction.create
    cr_pc,            \* "idle", "call" or "done"
    cr_row,           \* the cells of the row
    cr_awards_prices, \* the awards_prices argument
    cr_result,        \* the transaction returned, or the exception
    \* vanguard.read_vanguard_transactions
    vg_pc,            \* "idle", "call" or "done"
    vg_rows,          \* the rows of the report
    vg_result         \* the list returned, the rows ignored, or the exception

ap_vars == <<ap_pc, ap_self, ap_other, ap_merged, ap_date, ap_symbol, ap_got>>
u_vars == <<u_pc, u_transactions, u_i, u_filtered, u_warnings, u_err, u_result>>
ra_vars == <<ra_pc, ra_file, ra_result>>
rs_vars == <<rs_pc, rs_args, rs_result>>
rc_vars == <<rc_pc, rc_args, rc_equity_transactions, rc_award_prices, rc_transactions,
             rc_warnings, rc_err, rc_result>>
aa_vars == <<aa_pc, aa_file, aa_folder, aa_order, aa_result>>
dn_vars == <<dn_pc, dn_row, dn_basename, dn_suffix, dn_result>>
cr_vars == <<cr_pc, cr_row, cr_awards_prices, cr_result>>
vg_vars == <<vg_pc, vg_rows, vg_result>>

vars == <<ap_vars, u_vars, ra_vars, rs_vars, rc_vars, aa_vars, dn_vars, cr_vars,
          vg_vars>>

None == <<>>
Some(v) == <<v>>

Min(S) == CHOOSE x \in S : \A y \in S : x <= y

(***************************************************************************)
(* Bounds of the model.                                                    *)
(***************************************************************************)
\* award tables hold entries on days 1..MaxDay
MaxDay == 2
\* an award table holds at most MaxEntries (date, symbol) entries
MaxEntries == 2
\* the unifier is handed at most MaxTrx transactions
MaxTrx == 3
\* an award file holds at most MaxAwardRows data rows
MaxAwardRows == 4
\* the transactions file holds at most MaxRows data rows
MaxRows == 2
\* the equity award JSON reader returns at most MaxEquity transactions
MaxEquity == 2
MaxAwardFiles == 2
MaxVgRows == 2

(***************************************************************************)
(* cgt_calc.const.TICKER_RENAMES: the static ticker-rename table.          *)
(***************************************************************************)
TICKER_RENAMES == [s \in {"FB"} |-> "META"]

\* TICKER_RENAMES.get(symbol, symbol)
TickerRename(symbol) ==
    IF symbol \in DOMAIN TICKER_RENAMES THEN TICKER_RENAMES[symbol] ELSE symbol

(***************************************************************************)
(* AwardPrices (schwab_util.py).  award_prices: date -> (symbol -> price). *)
(***************************************************************************)
EmptyPrices == <<>>

\* range(7) in AwardPrices.get
SEARCH_DAYS == 7

\* the (date, symbol) keys of a table
PriceKeys(prices) ==
    {<<d, s>> \in (DOMAIN prices) \X {"X", "META", "FB", "GOOG"} : s \in DOMAIN prices[d]}

HasPrice(prices, d, s) == d \in DOMAIN prices /\ s \in DOMAIN prices[d]

\* a bug: the loop looks one day further back
RECURSIVE get_scan_wide(_, _, _, _)
get_scan_wide(prices, date, symbol, i) ==
    IF i >= SEARCH_DAYS + 1
    THEN [err |-> "KeyError", value |-> None]
    ELSE LET to_search == date - i
         IN  IF to_search \in DOMAIN prices /\ symbol \in DOMAIN prices[to_search]
             THEN [err |-> "", value |-> <<to_search, prices[to_search][symbol]>>]
             ELSE get_scan_wide(prices, date, symbol, i + 1)

\* the for loop of AwardPrices.get, from iteration i on
RECURSIVE get_scan(_, _, _, _)
get_scan(prices, date, symbol, i) ==
    IF i >= SEARCH_DAYS
    THEN [err |-> "KeyError", value |-> None]
    ELSE LET to_search == date - i
         IN  IF to_search \in DOMAIN prices /\ symbol \in DOMAIN prices[to_search]
             THEN [err |-> "", value |-> <<to_search, prices[to_search][symbol]>>]
             ELSE get_scan(prices, date, symbol, i + 1)

\* AwardPrices.get(date, symbol)
get(prices, date, symbol) == get_scan(prices, date, TickerRename(symbol), 0)

\* AwardPrices.merge(other): dict.copy() then dict.update(other.award_prices)
merge(prices, other) ==
    [d \in (DOMAIN prices) \cup (DOMAIN other) |->
        IF d \in DOMAIN other THEN other[d] ELSE prices[d]]

(***************************************************************************)
(* The award tables the model draws from: at most MaxEntries entries, on   *)
(* days 1..MaxDay, every inner dict non-empty (as the readers build them). *)
(***************************************************************************)
TableSymbols == {"X", "META"}
TablePrices == {10, 20}

EntrySets ==
    {E \in SUBSET ((1..MaxDay) \X TableSymbols \X TablePrices) :
        /\ Cardinality(E) <= MaxEntries
        /\ \A e1, e2 \in E : (e1[1] = e2[1] /\ e1[2] = e2[2]) => e1 = e2}

TableOf(E) ==
    [d \in {e[1] : e \in E} |->
        [s \in {e[2] : e \in {x \in E : x[1] = d}} |->
            (CHOOSE e \in E : e[1] = d /\ e[2] = s)[3]]]

Tables == {TableOf(E) : E \in EntrySets}

QueryDates == 1..(MaxDay + SEARCH_DAYS + 1)
QuerySymbols == {"X", "META", "FB"}

(***************************************************************************)
(* Cells of the CSV files and their conversions.  The model draws cells    *)
(* from a fixed pool of strings; each conversion is the table of what the  *)
(* Python conversion does on the strings of the pool, and fails on the     *)
(* rest as the Python conversion does.                                     *)
(***************************************************************************)
\* str.replace("$", "")
RemoveDollar(s) ==
    LET t == ("$5" :> "5") @@ ("$1" :> "1") @@ ("$2" :> "2") @@ ("$10" :> "10")
             @@ ("$20" :> "20") @@ ("$50" :> "50") @@ ("$1000" :> "1000")
             @@ ("-$50" :> "-50") @@ ("$1,000" :> "1,000")
    IN  IF s \in DOMAIN t THEN t[s] ELSE s

\* str.replace(",", "")
RemoveComma(s) ==
    LET t == ("1,000" :> "1000") @@ ("$1,000" :> "$1000")
    IN  IF s \in DOMAIN t THEN t[s] ELSE s

\* decimal.Decimal(str): the value, or InvalidOperation
DecimalValue ==
    ("0" :> 0) @@ ("1" :> 1) @@ ("2" :> 2) @@ ("5" :> 5) @@ ("10" :> 10)
    @@ ("20" :> 20) @@ ("40" :> 40) @@ ("50" :> 50) @@ ("1000" :> 1000)
    @@ ("-40" :> -40) @@ ("-10" :> -10) @@ ("-50" :> -50)

Decimal(s) ==
    IF s \in DOMAIN DecimalValue
    THEN [err |-> "", value |-> DecimalValue[s]]
    ELSE [err |-> "InvalidOperation", value |-> 0]

\* the text after " as of " in a date cell that holds it
AsOfTail ==
    ("01/03/2024 as of 01/02/2024" :> "01/02/2024")
    @@ ("01/02/2024 as of 2024-01-01" :> "2024-01-01")

\* datetime.strptime(s, "%m/%d/%Y").date(), defined where it does not raise
StrpTime_mdY ==
    ("01/01/2024" :> 1) @@ ("01/02/2024" :> 2) @@ ("01/03/2024" :> 3)
    @@ ("01/04/2024" :> 4) @@ ("01/08/2024" :> 8) @@ ("01/09/2024" :> 9)

\* datetime.strptime(s, "%Y/%m/%d").date(), defined where it does not raise
StrpTime_Ymd ==
    ("2024/01/01" :> 1) @@ ("2024/01/02" :> 2) @@ ("2024/01/03" :> 3)

Abs(n) == IF n < 0 THEN -n ELSE n

RECURSIVE GCD(_, _)
GCD(a, b) == IF b = 0 THEN a ELSE GCD(b, a % b)

\* Decimal n / Decimal d for d # 0
Frac(n, d) ==
    LET g == GCD(Abs(n), Abs(d))
        s == IF d < 0 THEN -1 ELSE 1
    IN  <<(s * n) \div g, (s * d) \div g>>

(***************************************************************************)
(* schwab.py: constants, headers, action_from_str.                         *)
(***************************************************************************)
OLD_COLUMNS_NUM == 9
NEW_COLUMNS_NUM == 8

\* SchwabTransactionsFileRequiredHeaders
SchwabRequiredHeaders ==
    {"Date", "Action", "Symbol", "Description", "Price", "Quantity",
     "Fees & Comm", "Amount"}

\* AwardsTransactionsFileRequiredHeaders
AwardsRequiredHeaders == {"Date", "Symbol", "FairMarketValuePrice"}

\* `label in "Stock Plan Activity"` is a substring test: these labels pass it
StockPlanActivitySubstrings ==
    {"Stock Plan Activity", "", "Stock Plan", "Activity", "Stock"}

\* action_from_str(label): the ActionType, or ParsingError
action_from_str(label) ==
    IF label = "Buy" THEN [err |-> "", value |-> "BUY"]
    ELSE IF label = "Sell" THEN [err |-> "", value |-> "SELL"]
    ELSE IF label \in {"MoneyLink Transfer", "Misc Cash Entry", "Service Fee",
                       "Wire Funds", "Wire Sent", "Funds Received", "Journal",
                       "Cash In Lieu", "Visa Purchase", "MoneyLink Deposit",
                       "MoneyLink Adj"}
         THEN [err |-> "", value |-> "TRANSFER"]
    ELSE IF label \in StockPlanActivitySubstrings
         THEN [err |-> "", value |-> "STOCK_ACTIVITY"]
    ELSE IF label \in {"Qualified Dividend", "Cash Dividend", "Qual Div Reinvest",
                       "Div Adjustment", "Special Qual Div", "Non-Qualified Div"}
         THEN [err |-> "", value |-> "DIVIDEND"]
    ELSE IF label \in {"NRA Tax Adj", "NRA Withholding", "Foreign Tax Paid"}
         THEN [err |-> "", value |-> "TAX"]
    ELSE IF label = "ADR Mgmt Fee" THEN [err |-> "", value |-> "FEE"]
    ELSE IF label \in {"Adjustment", "IRS Withhold Adj", "Wire Funds Adj"}
         THEN [err |-> "", value |-> "ADJUSTMENT"]
    ELSE IF label \in {"Short Term Cap Gain", "Long Term Cap Gain"}
         THEN [err |-> "", value |-> "CAPITAL_GAIN"]
    ELSE IF label = "Spin-off" THEN [err |-> "", value |-> "SPIN_OFF"]
    ELSE IF label = "Credit Interest" THEN [err |-> "", value |-> "INTEREST"]
    ELSE IF label = "Reinvest Shares" THEN [err |-> "", value |-> "REINVEST_SHARES"]
    ELSE IF label = "Reinvest Dividend"
         THEN [err |-> "", value |-> "REINVEST_DIVIDENDS"]
    ELSE IF label = "Wire Funds Received"
         THEN [err |-> "", value |-> "WIRE_FUNDS_RECEIVED"]
    ELSE IF label = "Stock Split" THEN [err |-> "", value |-> "STOCK_SPLIT"]
    ELSE IF label \in {"Cash Merger", "Cash Merger Adj"}
         THEN [err |-> "", value |-> "CASH_MERGER"]
    ELSE [err |-> "ParsingError", value |-> ""]

(***************************************************************************)
(* SchwabTransaction.  A transaction is a record; id stands for the        *)
(* identity of the Python object.  A call that raises returns              *)
(* [err, source, value = None], source being the file the exception names  *)
(* (Optional: the caller may pass None).                                   *)
(***************************************************************************)
Raise(err, source) == [err |-> err, source |-> source, value |-> None]
Return(v) == [err |-> "", source |-> None, value |-> Some(v)]

\* OrderedDict(zip(headers, row)): keys and values, cut to the shorter list
RowDict(headers, row) ==
    LET n == Min({Len(headers), Len(row)})
    IN  [keys |-> SubSeq(headers, 1, n), vals |-> SubSeq(row, 1, n)]

HasKey(row_dict, k) == \E i \in 1..Len(row_dict.keys) : row_dict.keys[i] = k

\* row_dict[k]
Lookup(row_dict, k) ==
    row_dict.vals[CHOOSE i \in 1..Len(row_dict.keys) : row_dict.keys[i] = k]

\* Decimal(cell.replace(...)) if cell != "" else default
OptDecimal(cell, stripped) ==
    IF cell = "" THEN [err |-> "", value |-> None]
    ELSE LET d == Decimal(stripped)
         IN  [err |-> d.err, value |-> Some(d.value)]

\* SchwabTransaction.__init__(row_dict, file)
SchwabTransaction(row_dict, file, id) ==
    LET n == Len(row_dict.keys)
    IN
    IF n < NEW_COLUMNS_NUM \/ n > OLD_COLUMNS_NUM
    THEN Raise("UnexpectedColumnCountError", file)
    ELSE IF n = OLD_COLUMNS_NUM /\ row_dict.vals[n] # ""
    THEN Raise("ParsingError", file)
    ELSE IF ~HasKey(row_dict, "Date") THEN Raise("KeyError", None)
    ELSE
    LET date_cell == Lookup(row_dict, "Date")
        date_str == IF date_cell \in DOMAIN AsOfTail
                    THEN AsOfTail[date_cell] ELSE date_cell
    IN
    IF date_str \notin DOMAIN StrpTime_mdY THEN Raise("ParsingError", file)
    ELSE IF ~HasKey(row_dict, "Action") THEN Raise("KeyError", None)
    ELSE
    LET raw_action == Lookup(row_dict, "Action")
        action == action_from_str(raw_action)
    IN
    IF action.err # "" THEN Raise("ParsingError", Some("schwab transactions"))
    ELSE IF \E h \in {"Symbol", "Description", "Price"} : ~HasKey(row_dict, h)
    THEN Raise("KeyError", None)
    ELSE
    LET symbol_cell == Lookup(row_dict, "Symbol")
        symbol == IF symbol_cell # "" THEN Some(TickerRename(symbol_cell)) ELSE None
        price_cell == Lookup(row_dict, "Price")
        price == OptDecimal(price_cell, RemoveDollar(price_cell))
    IN
    IF price.err # "" THEN Raise(price.err, None)
    ELSE IF ~HasKey(row_dict, "Quantity") THEN Raise("KeyError", None)
    ELSE
    LET quantity_cell == Lookup(row_dict, "Quantity")
        quantity == OptDecimal(quantity_cell, RemoveComma(quantity_cell))
    IN
    IF quantity.err # "" THEN Raise(quantity.err, None)
    ELSE IF ~HasKey(row_dict, "Fees & Comm") THEN Raise("KeyError", None)
    ELSE
    LET fees_cell == Lookup(row_dict, "Fees & Comm")
        fees == OptDecimal(fees_cell, RemoveDollar(fees_cell))
    IN
    IF fees.err # "" THEN Raise(fees.err, None)
    ELSE IF ~HasKey(row_dict, "Amount") THEN Raise("KeyError", None)
    ELSE
    LET amount_cell == Lookup(row_dict, "Amount")
        amount == OptDecimal(amount_cell, RemoveDollar(amount_cell))
    IN
    IF amount.err # "" THEN Raise(amount.err, None)
    ELSE Return([id |-> id,
                 date |-> StrpTime_mdY[date_str],
                 action |-> action.value,
                 raw_action |-> raw_action,
                 symbol |-> symbol,
                 description |-> Lookup(row_dict, "Description"),
                 quantity |-> quantity.value,
                 price |-> IF price.value = None THEN None
                           ELSE Some(<<price.value[1], 1>>),
                 fees |-> IF fees.value = None THEN 0 ELSE fees.value[1],
                 amount |-> amount.value,
                 currency |-> "USD",
                 broker |-> "Charles Schwab"])

\* a bug: a price that is not found leaves the transaction as it was parsed
create_unpriced(row_dict, file, awards_prices, id) ==
    LET priced(transaction, found) ==
            IF found.err # ""
            THEN Return(transaction)
            ELSE Return([transaction EXCEPT
                            !.date = found.value[1],
                            !.price = Some(<<found.value[2], 1>>)])
        backfill(transaction) ==
            IF transaction.price = None /\ transaction.action = "STOCK_ACTIVITY"
            THEN IF transaction.symbol = None
                 THEN Raise("SymbolMissingError", None)
                 ELSE priced(transaction,
                             get(awards_prices, transaction.date, transaction.symbol[1]))
            ELSE Return(transaction)
        constructed(made) ==
            IF made.err # "" THEN made ELSE backfill(made.value[1])
    IN  constructed(SchwabTransaction(row_dict, file, id))

\* SchwabTransaction.create(row_dict, file, awards_prices)
create(row_dict, file, awards_prices, id) ==
    LET priced(transaction, found) ==
            IF found.err # ""
            THEN Raise(found.err, None)
            ELSE Return([transaction EXCEPT
                            !.date = found.value[1],
                            !.price = Some(<<found.value[2], 1>>)])
        backfill(transaction) ==
            IF transaction.price = None /\ transaction.action = "STOCK_ACTIVITY"
            THEN IF transaction.symbol = None
                 THEN Raise("SymbolMissingError", None)
                 ELSE priced(transaction,
                             get(awards_prices, transaction.date, transaction.symbol[1]))
            ELSE Return(transaction)
        constructed(made) ==
            IF made.err # "" THEN made ELSE backfill(made.value[1])
    IN  constructed(SchwabTransaction(row_dict, file, id))

(***************************************************************************)
(* _unify_schwab_cash_merger_trxs.                                         *)
(***************************************************************************)
\* a bug: the asserts on the state of filtered[-1] are missing
UnifyAssertsLax(filtered, transaction) ==
    /\ Len(filtered) > 0
    /\ filtered[Len(filtered)].raw_action = "Cash Merger"
    /\ filtered[Len(filtered)].description = transaction.description
    /\ filtered[Len(filtered)].symbol = transaction.symbol
    /\ filtered[Len(filtered)].date = transaction.date
    /\ filtered[Len(filtered)].amount # None
    /\ transaction.amount = None
    /\ transaction.quantity # None

\* the ten assert statements on a "Cash Merger Adj" row
UnifyAsserts(filtered, transaction) ==
    /\ Len(filtered) > 0
    /\ filtered[Len(filtered)].raw_action = "Cash Merger"
    /\ filtered[Len(filtered)].description = transaction.description
    /\ filtered[Len(filtered)].symbol = transaction.symbol
    /\ filtered[Len(filtered)].date = transaction.date
    /\ filtered[Len(filtered)].quantity = None
    /\ filtered[Len(filtered)].price = None
    /\ filtered[Len(filtered)].amount # None
    /\ transaction.amount = None
    /\ transaction.quantity # None

\* a bug: the sign of the quantity is kept
FoldedSigned(last, transaction) ==
    LET quantity == transaction.quantity[1]
    IN  [last EXCEPT !.quantity = Some(quantity),
                     !.price = Some(Frac(last.amount[1], quantity)),
                     !.fees = last.fees + transaction.fees]

\* the quantity, price and fees the fold writes into filtered[-1]
Folded(last, transaction) ==
    LET quantity == (-1) * transaction.quantity[1]
    IN  [last EXCEPT !.quantity = Some(quantity),
                     !.price = Some(Frac(last.amount[1], quantity)),
                     !.fees = last.fees + transaction.fees]

\* a bug: the adjustment row is appended after the fold
unify_step_appending(filtered, transaction) ==
    IF transaction.raw_action = "Cash Merger Adj"
    THEN IF ~UnifyAsserts(filtered, transaction)
         THEN [err |-> "AssertionError", filtered |-> filtered, warned |-> None]
         ELSE LET last == filtered[Len(filtered)]
              IN  IF transaction.quantity[1] = 0
                  THEN [err |-> IF last.amount[1] = 0 THEN "InvalidOperation"
                                ELSE "DivisionByZero",
                        filtered |-> [filtered EXCEPT ![Len(filtered)].quantity =
                                         Some((-1) * transaction.quantity[1])],
                        warned |-> None]
                  ELSE [err |-> "",
                        filtered |-> Append([filtered EXCEPT ![Len(filtered)] =
                                                Folded(last, transaction)],
                                            transaction),
                        warned |-> Some(last.id)]
    ELSE [err |-> "", filtered |-> Append(filtered, transaction), warned |-> None]

\* one iteration of the for loop: the buffer after it, the id printed in
\* the WARNING (Optional), or the exception and the buffer at the raise; a
\* quantity of 0 is written into filtered[-1] by line 244 before the
\* division of line 245 raises
unify_step(filtered, transaction) ==
    IF transaction.raw_action = "Cash Merger Adj"
    THEN IF ~UnifyAsserts(filtered, transaction)
         THEN [err |-> "AssertionError", filtered |-> filtered, warned |-> None]
         ELSE LET last == filtered[Len(filtered)]
              IN  IF transaction.quantity[1] = 0
                  THEN [err |-> IF last.amount[1] = 0 THEN "InvalidOperation"
                                ELSE "DivisionByZero",
                        filtered |-> [filtered EXCEPT ![Len(filtered)].quantity =
                                         Some((-1) * transaction.quantity[1])],
                        warned |-> None]
                  ELSE [err |-> "",
                        filtered |-> [filtered EXCEPT ![Len(filtered)] =
                                         Folded(last, transaction)],
                        warned |-> Some(last.id)]
    ELSE [err |-> "", filtered |-> Append(filtered, transaction), warned |-> None]

\* the for loop from the i-th transaction on
\* the for loop from the i-th transaction on; warned holds the ids of the
\* transactions printed in the WARNING lines so far
RECURSIVE unify_from(_, _, _, _)
unify_from(transactions, i, filtered, warned) ==
    IF i > Len(transactions)
    THEN [err |-> "", value |-> filtered, warned |-> warned]
    ELSE LET step == unify_step(filtered, transactions[i])
         IN  IF step.err # ""
             THEN [err |-> step.err, value |-> <<>>, warned |-> warned]
             ELSE unify_from(transactions, i + 1, step.filtered,
                             warned \o step.warned)

\* _unify_schwab_cash_merger_trxs(transactions): the list returned or the
\* exception, and the ids printed in the WARNING lines
unify_schwab_cash_merger_trxs(transactions) == unify_from(transactions, 1, <<>>, <<>>)

(***************************************************************************)
(* Files.  A path argument is Optional; the file behind a path is a record *)
(* [name, exists, lines]: lines are the rows csv.reader yields, the header *)
(* row first.  A WARNING or INFO line printed is a pair: <<text, file      *)
(* name>>, <<text, id of the transaction printed>> for the unifier's line, *)
(* <<text, <<symbol, date, quantity>>>> for the line of a removal.  The    *)
(* progress line "Parsing FILE" of line 279 is neither and is not kept.    *)
(***************************************************************************)
Range(seq) == {seq[i] : i \in 1..Len(seq)}

\* any(row)
AnyCell(row) == \E i \in 1..Len(row) : row[i] # ""

(***************************************************************************)
(* _read_schwab_awards.                                                    *)
(***************************************************************************)
\* initial_prices[date][symbol] = price
SetPrice(prices, date, symbol, price) ==
    [d \in (DOMAIN prices) \cup {date} |->
        IF d = date
        THEN [s \in (IF date \in DOMAIN prices THEN DOMAIN prices[date] ELSE {})
                    \cup {symbol} |->
                 IF s = symbol THEN price ELSE prices[date][s]]
        ELSE prices[d]]

\* a bug: the assert on the two halves of a column is missing
combine_rows_unchecked(upper_row, lower_row) ==
    LET n == Min({Len(upper_row), Len(lower_row)})
    IN  [err |-> "", row |-> [i \in 1..n |-> upper_row[i] \o lower_row[i]]]

\* the inner loop: zip(upper_row, lower_row), the assert, row.append
combine_rows(upper_row, lower_row) ==
    LET n == Min({Len(upper_row), Len(lower_row)})
    IN  IF \E i \in 1..n : ~(upper_row[i] = "" \/ lower_row[i] = "")
        THEN [err |-> "AssertionError", row |-> <<>>]
        ELSE [err |-> "", row |-> [i \in 1..n |-> upper_row[i] \o lower_row[i]]]

\* the body of the loop over the row pairs: the table after it and the
\* combined row, or the exception
awards_pair(headers, upper_row, lower_row, initial_prices, file) ==
    LET combined == combine_rows(upper_row, lower_row)
        failed(err, source) ==
            [err |-> err, source |-> source, prices |-> initial_prices, row |-> <<>>]
    IN
    IF combined.err # "" THEN failed(combined.err, None)
    ELSE IF Len(combined.row) # Len(headers)
    THEN failed("UnexpectedColumnCountError", Some(file))
    ELSE
    LET row_dict == RowDict(headers, combined.row)
        date_str == Lookup(row_dict, "Date")
    IN
    IF date_str \notin (DOMAIN StrpTime_Ymd) \cup (DOMAIN StrpTime_mdY)
    THEN failed("ValueError", None)
    ELSE
    LET date == IF date_str \in DOMAIN StrpTime_Ymd
                THEN StrpTime_Ymd[date_str] ELSE StrpTime_mdY[date_str]
        symbol_cell == Lookup(row_dict, "Symbol")
        price_cell == Lookup(row_dict, "FairMarketValuePrice")
        price == OptDecimal(price_cell, RemoveDollar(price_cell))
    IN
    IF price.err # "" THEN failed(price.err, None)
    ELSE [err |-> "", source |-> None,
          prices |-> IF symbol_cell # "" /\ price.value # None
                     THEN SetPrice(initial_prices, date, TickerRename(symbol_cell),
                                   price.value[1])
                     ELSE initial_prices,
          row |-> combined.row]

\* the loop over zip(lines[::2], lines[1::2]) from the k-th pair on; rows
\* collects the combined rows
RECURSIVE awards_pairs(_, _, _, _, _, _)
awards_pairs(headers, lines, k, initial_prices, rows, file) ==
    IF 2 * k > Len(lines)
    THEN [err |-> "", source |-> None, prices |-> initial_prices, rows |-> rows]
    ELSE LET stored(pair) ==
                 IF pair.err # ""
                 THEN [err |-> pair.err, source |-> pair.source,
                       prices |-> initial_prices, rows |-> rows]
                 ELSE awards_pairs(headers, lines, k + 1, pair.prices,
                                   Append(rows, pair.row), file)
         IN  stored(awards_pair(headers, lines[2 * k - 1], lines[2 * k],
                                initial_prices, file))

\* modulo = len(lines) % 2
awards_modulo(lines) == Len(lines) % 2

\* _read_schwab_awards(schwab_award_transactions_file): the table returned
\* (Optional), the warnings printed, the combined rows, or the exception
read_schwab_awards(file) ==
    LET failed(err, source, warnings) ==
            [err |-> err, source |-> source, value |-> None,
             warnings |-> warnings, rows |-> <<>>]
        parse(headers, lines, warnings) ==
            IF awards_modulo(lines) # 0
            THEN failed("UnexpectedRowCountError",
                        IF file = None THEN Some("") ELSE Some(file[1].name), warnings)
            ELSE LET returned(done) ==
                         IF done.err # ""
                         THEN failed(done.err, done.source, warnings)
                         ELSE [err |-> "", source |-> None,
                               value |-> Some(done.prices),
                               warnings |-> warnings, rows |-> done.rows]
                 IN  returned(awards_pairs(headers, lines, 1, EmptyPrices, <<>>,
                                           IF file = None THEN "" ELSE file[1].name))
    IN
    IF file = None
    THEN parse(<<>>, <<>>, << <<"WARNING: No schwab award file provided", "">> >>)
    ELSE IF ~file[1].exists
    THEN parse(<<>>, <<>>,
               << <<"WARNING: Couldn't locate Schwab award file", file[1].name>> >>)
    ELSE IF Len(file[1].lines) = 0
    THEN failed("IndexError", None, <<>>)
    ELSE IF ~(AwardsRequiredHeaders \subseteq Range(file[1].lines[1]))
    THEN failed("ParsingError", Some(file[1].name), <<>>)
    ELSE parse(file[1].lines[1], Tail(file[1].lines), <<>>)

(***************************************************************************)
(* _read_schwab_awards_all.  A folder argument is Optional; the folder is  *)
(* the sequence of its *.csv files in the order Path.glob yields them.     *)
(***************************************************************************)
\* files = [file] if given, extended by the folder's files if given
FileList(file, folder) ==
    (IF file # None THEN <<file[1]>> ELSE <<>>)
    \o (IF folder # None THEN folder[1] ELSE <<>>)

\* the loop award_prices = award_prices.merge(_read_schwab_awards(file))
RECURSIVE awards_fold(_, _, _, _)
awards_fold(files, k, award_prices, warnings) ==
    IF k > Len(files)
    THEN [err |-> "", source |-> None, value |-> Some(award_prices),
          warnings |-> warnings]
    ELSE LET merged(read) ==
                 IF read.err # ""
                 THEN [err |-> read.err, source |-> read.source, value |-> None,
                       warnings |-> warnings \o read.warnings]
                 ELSE awards_fold(files, k + 1, merge(award_prices, read.value[1]),
                                  warnings \o read.warnings)
         IN  merged(read_schwab_awards(Some(files[k])))

\* _read_schwab_awards_all(schwab_award_transactions_file,
\* schwab_award_transactions_folder)
read_schwab_awards_all(award_file, award_folder) ==
    awards_fold(FileList(award_file, award_folder), 1, EmptyPrices, <<>>)

(***************************************************************************)
(* read_schwab_transactions.                                               *)
(***************************************************************************)
\* list.reverse()
Reverse(seq) == [i \in 1..Len(seq) |-> seq[Len(seq) + 1 - i]]

\* the place of seq[i] after a stable sort by date: behind every element of
\* a smaller date and every earlier element of the same date
SortRank(seq, i) ==
    Cardinality({j \in 1..Len(seq) :
                    \/ seq[j].date < seq[i].date
                    \/ (seq[j].date = seq[i].date /\ j < i)}) + 1

\* a bug: the list is returned as it was built
Unsorted(seq) == seq

\* list.sort(key=lambda k: k.date) and sorted(..., key=lambda k: k.date):
\* ascending by date, stable
SortByDate(seq) ==
    [p \in 1..Len(seq) |-> seq[CHOOSE i \in 1..Len(seq) : SortRank(seq, i) = p]]

\* the list comprehension of lines 297-303 from the k-th data row on: one
\* transaction per row that has a non-empty cell
RECURSIVE create_rows(_, _, _, _, _, _, _)
create_rows(headers, lines, k, transactions, transactions_file, awards_prices, f) ==
    IF k > Len(lines)
    THEN [err |-> "", source |-> None, value |-> transactions]
    ELSE IF ~AnyCell(lines[k])
    THEN create_rows(headers, lines, k + 1, transactions, transactions_file,
                     awards_prices, f)
    ELSE LET appended(made) ==
                 IF made.err # ""
                 THEN [err |-> made.err, source |-> made.source, value |-> <<>>]
                 ELSE create_rows(headers, lines, k + 1,
                                  Append(transactions, made.value[1]),
                                  transactions_file, awards_prices, f)
         IN  appended(create(RowDict(headers, lines[k]), transactions_file,
                             awards_prices, <<"schwab", f, k>>))

\* a bug: a file that is not found ends the read
missing_file_fatal(file) ==
    [err |-> "FileNotFoundError", source |-> None, value |-> <<>>, warnings |-> <<>>]

\* the except FileNotFoundError branch: a warning, nothing read
missing_file(file) ==
    [err |-> "", source |-> None, value |-> <<>>,
     warnings |-> << <<"WARNING: Couldn't locate Schwab transactions file", file.name>> >>]

\* the WARNING lines of line 247, one per folded transaction
CashMergerWarnings(warned) ==
    [i \in 1..Len(warned) |->
        <<"WARNING: Cash Merger support is not complete and doesn't cover the cases when shares are received aside from cash,  please review this transaction carefully",
          warned[i]>>]

\* a bug: the rows are reversed before the unifier runs
read_transactions_file_reversed_first(file, f, transactions_file, awards_prices) ==
    LET failed(err, source) ==
            [err |-> err, source |-> source, value |-> <<>>, warnings |-> <<>>]
    IN
    IF ~file.exists THEN missing_file(file)
    ELSE IF Len(file.lines) = 0 THEN failed("IndexError", None)
    ELSE IF ~(SchwabRequiredHeaders \subseteq Range(file.lines[1]))
    THEN failed("ParsingError", transactions_file)
    ELSE
    LET unified_last(unified) ==
            IF unified.err # ""
            THEN [err |-> unified.err, source |-> None, value |-> <<>>,
                  warnings |-> CashMergerWarnings(unified.warned)]
            ELSE [err |-> "", source |-> None, value |-> unified.value,
                  warnings |-> CashMergerWarnings(unified.warned)]
        parsed(made) ==
            IF made.err # "" THEN failed(made.err, made.source)
            ELSE unified_last(unify_schwab_cash_merger_trxs(Reverse(made.value)))
    IN  parsed(create_rows(file.lines[1], Tail(file.lines), 1, <<>>,
                           transactions_file, awards_prices, f))

\* the body of the loop over files: the transactions the f-th file adds to
\* all_transactions and the WARNING lines printed, or the exception and the
\* WARNING lines printed before it
read_transactions_file(file, f, transactions_file, awards_prices) ==
    LET failed(err, source) ==
            [err |-> err, source |-> source, value |-> <<>>, warnings |-> <<>>]
    IN
    IF ~file.exists THEN missing_file(file)
    ELSE IF Len(file.lines) = 0 THEN failed("IndexError", None)
    ELSE IF ~(SchwabRequiredHeaders \subseteq Range(file.lines[1]))
    THEN failed("ParsingError", transactions_file)
    ELSE
    LET reversed(unified) ==
            IF unified.err # ""
            THEN [err |-> unified.err, source |-> None, value |-> <<>>,
                  warnings |-> CashMergerWarnings(unified.warned)]
            ELSE [err |-> "", source |-> None, value |-> Reverse(unified.value),
                  warnings |-> CashMergerWarnings(unified.warned)]
        parsed(made) ==
            IF made.err # "" THEN failed(made.err, made.source)
            ELSE reversed(unify_schwab_cash_merger_trxs(made.value))
    IN  parsed(create_rows(file.lines[1], Tail(file.lines), 1, <<>>,
                           transactions_file, awards_prices, f))

\* the loop over files from the f-th file on
RECURSIVE read_files(_, _, _, _, _, _)
read_files(files, f, all_transactions, warnings, transactions_file, awards_prices) ==
    IF f > Len(files)
    THEN [err |-> "", source |-> None, value |-> all_transactions,
          warnings |-> warnings]
    ELSE LET extended(read) ==
                 IF read.err # ""
                 THEN [err |-> read.err, source |-> read.source, value |-> <<>>,
                       warnings |-> warnings \o read.warnings]
                 ELSE read_files(files, f + 1, all_transactions \o read.value,
                                 warnings \o read.warnings, transactions_file,
                                 awards_prices)
         IN  extended(read_transactions_file(files[f], f, transactions_file,
                                             awards_prices))

\* read_schwab_transactions(transactions_file, transactions_folder,
\* schwab_award_transactions_file, schwab_award_transactions_folder,
\* award_prices): the sorted list (Optional), the warnings, or the exception;
\* award_file and award_folder stand for the two schwab_award_... arguments
read_schwab_transactions(transactions_file, transactions_folder, award_file, award_folder, award_prices) ==
    LET sorted(awards, read) ==
            IF read.err # ""
            THEN [err |-> read.err, source |-> read.source, value |-> None,
                  warnings |-> awards.warnings \o read.warnings]
            ELSE [err |-> "", source |-> None, value |-> Some(SortByDate(read.value)),
                  warnings |-> awards.warnings \o read.warnings]
        with_awards(awards) ==
            IF awards.err # ""
            THEN [err |-> awards.err, source |-> awards.source, value |-> None,
                  warnings |-> awards.warnings]
            ELSE sorted(awards,
                        read_files(FileList(transactions_file, transactions_folder),
                                   1, <<>>, <<>>,
                                   IF transactions_file = None THEN None
                                   ELSE Some(transactions_file[1].name),
                                   merge(award_prices, awards.value[1])))
    IN  with_awards(read_schwab_awards_all(award_file, award_folder))

(***************************************************************************)
(* read_schwab_combined_transactions.  The equity award JSON reader is the *)
(* pair (equity_transactions, award_prices) it returns; the argument json  *)
(* is that pair, or None when neither JSON path is given.                  *)
(***************************************************************************)
\* set((tr.date, tr.symbol) for tr in equity_transactions)
SymDates(equity_transactions) ==
    {<<equity_transactions[i].date, equity_transactions[i].symbol>> :
        i \in 1..Len(equity_transactions)}

\* a bug: nothing is removed
clean_all(transactions, k, equity_awards_sym_dates) == transactions

\* the loop of lines 447-452 from the k-th transaction on: clean_transactions
RECURSIVE clean_from(_, _, _)
clean_from(transactions, k, equity_awards_sym_dates) ==
    IF k > Len(transactions) THEN <<>>
    ELSE IF <<transactions[k].date, transactions[k].symbol>> \in equity_awards_sym_dates
    THEN clean_from(transactions, k + 1, equity_awards_sym_dates)
    ELSE <<transactions[k]>> \o clean_from(transactions, k + 1, equity_awards_sym_dates)

\* the INFO lines of line 450 from the k-th transaction on: one per
\* transaction removed, with its symbol, date and quantity
RECURSIVE removed_info(_, _, _)
removed_info(transactions, k, equity_awards_sym_dates) ==
    IF k > Len(transactions) THEN <<>>
    ELSE IF <<transactions[k].date, transactions[k].symbol>> \in equity_awards_sym_dates
    THEN << <<"INFO: Removing STOCK_ACTIVITY transaction already present in Equity Awards data",
              <<transactions[k].symbol, transactions[k].date,
                transactions[k].quantity>> >> >>
         \o removed_info(transactions, k + 1, equity_awards_sym_dates)
    ELSE removed_info(transactions, k + 1, equity_awards_sym_dates)

\* a bug: the list returned holds copies of the transactions
reconcile_copies(equity_transactions, transactions) ==
    LET copies(seq) == [p \in 1..Len(seq) |-> [seq[p] EXCEPT !.id = <<"copy", 0, p>>]]
    IN  IF equity_transactions # <<>>
        THEN copies(SortByDate(equity_transactions
                       \o clean_from(transactions, 1, SymDates(equity_transactions))))
        ELSE copies(transactions)

\* a bug: the chain starts with the lower-precision transactions
reconcile_lower_first(equity_transactions, transactions) ==
    IF equity_transactions # <<>>
    THEN SortByDate(clean_from(transactions, 1, SymDates(equity_transactions))
                    \o equity_transactions)
    ELSE transactions

\* lines 443-456: what is returned for the two sources' transactions
reconcile(equity_transactions, transactions) ==
    IF equity_transactions # <<>>
    THEN SortByDate(equity_transactions
                    \o clean_from(transactions, 1, SymDates(equity_transactions)))
    ELSE transactions

(***************************************************************************)
(* util.py: decimal_from_str and decimal_from_number_or_str.  A row is a   *)
(* dict from field names to Optional values: a number in a number field,   *)
(* a string in a string field.                                             *)
(***************************************************************************)
\* decimal_from_str(price_str): Decimal(price_str.replace("$", "").replace(",", ""))
decimal_from_str(price_str) == Decimal(RemoveComma(RemoveDollar(price_str)))

\* a bug: a number field is taken only if it is truthy
decimal_from_number_or_str_truthy(row, field_basename, field_float_suffix) ==
    LET float_name == field_basename \o field_float_suffix
        parsed(d) == [err |-> d.err, value |-> IF d.err = "" THEN Some(d.value) ELSE None]
    IN  IF float_name \in DOMAIN row /\ row[float_name] \notin {None, Some(0)}
        THEN [err |-> "", value |-> Some(row[float_name][1])]
        ELSE IF field_basename \in DOMAIN row /\ row[field_basename] # None
        THEN parsed(decimal_from_str(row[field_basename][1]))
        ELSE [err |-> "", value |-> Some(0)]

\* decimal_from_number_or_str(row, field_basename, field_float_suffix): the
\* Decimal returned, or the exception of Decimal(str)
decimal_from_number_or_str(row, field_basename, field_float_suffix) ==
    LET float_name == field_basename \o field_float_suffix
        parsed(d) == [err |-> d.err, value |-> IF d.err = "" THEN Some(d.value) ELSE None]
    IN  IF float_name \in DOMAIN row /\ row[float_name] # None
        THEN [err |-> "", value |-> Some(row[float_name][1])]
        ELSE IF field_basename \in DOMAIN row /\ row[field_basename] # None
        THEN parsed(decimal_from_str(row[field_basename][1]))
        ELSE [err |-> "", value |-> Some(0)]

(***************************************************************************)
(* parsers/vanguard.py.  A transaction of the Vanguard reader is a record  *)
(* with the fields of a Schwab transaction but raw_action; its id is the   *)
(* index of the row it was built from.  An exception is [err, line]: line  *)
(* is rows_iter.line for a ParsingError and None for the exceptions that   *)
(* pass through read_vanguard_transactions as they are.                    *)
(***************************************************************************)
\* datetime.strptime(val, "%d/%m/%Y").date(), defined where it does not raise
StrpTime_dmY == ("01/01/2024" :> 1) @@ ("02/01/2024" :> 2) @@ ("03/01/2024" :> 3)

\* parse_date(val)
parse_date(val) ==
    IF val \in DOMAIN StrpTime_dmY
    THEN [err |-> "", value |-> StrpTime_dmY[val]]
    ELSE [err |-> "ValueError", value |-> 0]

\* parse_decimal(val)
parse_decimal(val) ==
    IF RemoveComma(val) \in DOMAIN DecimalValue
    THEN [err |-> "", value |-> DecimalValue[RemoveComma(val)]]
    ELSE [err |-> "ValueError", value |-> 0]

\* the names that match r"^.+ \([:alnum:]+\)$": the pattern has no group,
\* so symbol_m.group(1) raises IndexError
SymbolPatternMatches == {"Fund (ulna)"}

\* group(1) of r"^(?:Bought|Sold) ([\d\.]+) " where the details match it
QuantityInDetails == ("Bought 10 Fund A" :> "10") @@ ("Sold 5 Fund A" :> "5")

\* the details that match r"^Sold " and r"^Bought "
SoldDetails == {"Sold 5 Fund A", "Sold Fund A"}
BoughtDetails == {"Bought 10 Fund A"}

\* the details that match the patterns of parse_cash_transactions, and
\* group(1) of "^DIV: (.+)$"
DepositDetails == {"Deposit"}
DividendDetails == ("DIV: Fund A" :> "Fund A")
InterestDetails == {"Cash Account Interest"}
FeeDetails == {"Account fee"}

INVESTMENT_TRANSACTIONS_FIELDS ==
    {"Date", "InvestmentName", "TransactionDetails", "Quantity", "Price", "Cost"}

CASH_TRANSACTIONS_FIELDS == {"Date", "Details", "Amount", "Balance"}

\* all(not f for f in row)
AllEmpty(row) == \A i \in 1..Len(row) : row[i] = ""

VanguardTransaction(id, date, action, symbol, description, quantity, price, amount) ==
    [id |-> id, date |-> date, action |-> action, symbol |-> symbol,
     description |-> description, quantity |-> quantity, price |-> price,
     fees |-> 0, amount |-> amount, currency |-> "GBP", broker |-> "Vanguard"]

\* the body of the for loop of parse_investment_transactions on the k-th
\* row: a transaction (made), an ignored row, or an exception
investment_row(headers, row, k) ==
    LET row_dict == RowDict(headers, row)
        raised(err) == [err |-> err, made |-> None, ignored |-> FALSE]
    IN
    LET date == parse_date(Lookup(row_dict, "Date"))
        name == Lookup(row_dict, "InvestmentName")
        details == Lookup(row_dict, "TransactionDetails")
        amount == parse_decimal(Lookup(row_dict, "Cost"))
        quantity == IF details \in DOMAIN QuantityInDetails
                    THEN parse_decimal(QuantityInDetails[details])
                    ELSE IF HasKey(row_dict, "Quantity")
                         THEN parse_decimal(Lookup(row_dict, "Quantity"))
                         ELSE [err |-> "KeyError", value |-> 0]
        price == parse_decimal(Lookup(row_dict, "Price"))
    IN
    IF ~HasKey(row_dict, "Date") THEN raised("KeyError")
    ELSE IF date.err # "" THEN raised(date.err)
    ELSE IF ~HasKey(row_dict, "InvestmentName") THEN raised("KeyError")
    ELSE IF ~HasKey(row_dict, "TransactionDetails") THEN raised("KeyError")
    ELSE IF ~HasKey(row_dict, "Cost") THEN raised("KeyError")
    ELSE IF amount.err # "" THEN raised(amount.err)
    ELSE IF name \in SymbolPatternMatches THEN raised("IndexError")
    ELSE IF quantity.err # "" THEN raised(quantity.err)
    ELSE IF ~HasKey(row_dict, "Price") THEN raised("KeyError")
    ELSE IF price.err # "" THEN raised(price.err)
    ELSE IF details \notin SoldDetails \cup BoughtDetails
    THEN [err |-> "", made |-> None, ignored |-> TRUE]
    ELSE [err |-> "",
          made |-> Some(VanguardTransaction(
                       <<"vanguard", 0, k>>, date.value,
                       IF details \in SoldDetails THEN "SELL" ELSE "BUY",
                       Some(name), details, Some(Abs(quantity.value)),
                       Some(<<price.value, 1>>), Some(0 - amount.value))),
          ignored |-> FALSE]

\* the body of the for loop of parse_cash_transactions on the k-th row
cash_row(headers, row, k) ==
    LET row_dict == RowDict(headers, row)
        raised(err) == [err |-> err, made |-> None, ignored |-> FALSE]
    IN
    LET date == parse_date(Lookup(row_dict, "Date"))
        amount == parse_decimal(Lookup(row_dict, "Amount"))
        details == Lookup(row_dict, "Details")
        action == IF details \in DepositDetails THEN "TRANSFER"
                  ELSE IF details \in DOMAIN DividendDetails THEN "DIVIDEND"
                  ELSE IF details \in InterestDetails THEN "INTEREST"
                  ELSE IF details \in FeeDetails THEN "FEE"
                  ELSE ""
    IN
    IF ~HasKey(row_dict, "Date") THEN raised("KeyError")
    ELSE IF date.err # "" THEN raised(date.err)
    ELSE IF ~HasKey(row_dict, "Amount") THEN raised("KeyError")
    ELSE IF amount.err # "" THEN raised(amount.err)
    ELSE IF ~HasKey(row_dict, "Details") THEN raised("KeyError")
    ELSE IF action = "" THEN [err |-> "", made |-> None, ignored |-> TRUE]
    ELSE [err |-> "",
          made |-> Some(VanguardTransaction(
                       <<"vanguard", 0, k>>, date.value, action, None,
                       IF details \in DOMAIN DividendDetails
                       THEN DividendDetails[details] ELSE details,
                       None, None, Some(amount.value))),
          ignored |-> FALSE]

\* what a pass over the rows has built so far: the transactions yielded and
\* the rows ignored with a log line
VgReturn(transactions, ignored) ==
    [err |-> "", line |-> None, transactions |-> transactions, ignored |-> ignored]

VgRaise(err, line) ==
    [err |-> err, line |-> line, transactions |-> <<>>, ignored |-> <<>>]

\* except ValueError: raise ParsingError(f"{transactions_file}:{rows_iter.line}");
\* k rows have been taken from rows_iter, so rows_iter.line is k + 1
VgError(err, k) ==
    IF err = "ValueError" THEN VgRaise("ParsingError", Some(k + 1)) ELSE VgRaise(err, None)

\* gen() from the k-th row on.  section is "" between the sections,
\* "Investment Transactions" or "Cash Transactions" inside one, with
\* headers the header row of the section
RECURSIVE vanguard_rows(_, _, _, _, _, _)
vanguard_rows(rows, k, section, headers, transactions, ignored) ==
    IF k > Len(rows) THEN VgReturn(transactions, ignored)
    ELSE IF rows[k] = <<>> THEN VgError("IndexError", k)
    ELSE IF section = ""
    THEN IF rows[k][1] \in {"Cash Transactions", "Investment Transactions"}
         THEN \* row = next(rows), once more after an empty row, then the headers
              LET h == IF k + 1 <= Len(rows) /\ AllEmpty(rows[k + 1]) THEN k + 2 ELSE k + 1
                  fields == IF rows[k][1] = "Cash Transactions"
                            THEN CASH_TRANSACTIONS_FIELDS
                            ELSE INVESTMENT_TRANSACTIONS_FIELDS
              IN  IF h > Len(rows) THEN VgRaise("RuntimeError", None)
                  ELSE IF ~(fields \subseteq Range(rows[h])) THEN VgError("ValueError", h)
                  ELSE vanguard_rows(rows, h + 1, rows[k][1], rows[h], transactions,
                                     ignored)
         ELSE vanguard_rows(rows, k + 1, "", <<>>, transactions, ignored)
    ELSE IF rows[k][1] = (IF section = "Cash Transactions" THEN "Balance" ELSE "Cost")
    THEN vanguard_rows(rows, k + 1, "", <<>>, transactions, ignored)
    ELSE LET yielded(parsed) ==
                 IF parsed.err # "" THEN VgError(parsed.err, k)
                 ELSE vanguard_rows(rows, k + 1, section, headers,
                                    transactions \o parsed.made,
                                    IF parsed.ignored THEN Append(ignored, k)
                                    ELSE ignored)
         IN  yielded(IF section = "Cash Transactions"
                     THEN cash_row(headers, rows[k], k)
                     ELSE investment_row(headers, rows[k], k))

\* read_vanguard_transactions(transactions_file), rows being the rows of the
\* file: the sorted list (Optional), the rows ignored, or the exception
read_vanguard_transactions(rows) ==
    LET sorted(read) ==
            IF read.err # ""
            THEN [err |-> read.err, source |-> read.line, value |-> None,
                  ignored |-> <<>>]
            ELSE [err |-> "", source |-> None,
                  value |-> Some(SortByDate(read.transactions)),
                  ignored |-> read.ignored]
    IN  sorted(vanguard_rows(rows, 1, "", <<>>, <<>>, <<>>))

(***************************************************************************)
(* The parts of the state a specification does not use stay as they are.   *)
(***************************************************************************)
ApIdle ==
    /\ ap_pc = "idle"
    /\ ap_self = EmptyPrices
    /\ ap_other = EmptyPrices
    /\ ap_merged = EmptyPrices
    /\ ap_date = 0
    /\ ap_symbol = ""
    /\ ap_got = [err |-> "", value |-> None]

UIdle ==
    /\ u_pc = "idle"
    /\ u_transactions = <<>>
    /\ u_i = 1
    /\ u_filtered = <<>>
    /\ u_warnings = <<>>
    /\ u_err = ""
    /\ u_result = None

RaIdle ==
    /\ ra_pc = "idle"
    /\ ra_file = None
    /\ ra_result = [err |-> "", source |-> None, value |-> None,
                    warnings |-> <<>>, rows |-> <<>>]

NoArgs ==
    [transactions_file |-> None, transactions_folder |-> None,
     award_file |-> None, award_folder |-> None,
     award_prices |-> EmptyPrices, json |-> None]

NoResult == [err |-> "", source |-> None, value |-> None, warnings |-> <<>>]

RsIdle ==
    /\ rs_pc = "idle"
    /\ rs_args = NoArgs
    /\ rs_result = NoResult

RcIdle ==
    /\ rc_pc = "idle"
    /\ rc_args = NoArgs
    /\ rc_equity_transactions = <<>>
    /\ rc_award_prices = EmptyPrices
    /\ rc_transactions = <<>>
    /\ rc_warnings = <<>>
    /\ rc_err = [err |-> "", source |-> None]
    /\ rc_result = None

AaIdle ==
    /\ aa_pc = "idle"
    /\ aa_file = None
    /\ aa_folder = {}
    /\ aa_order = <<>>
    /\ aa_result = NoResult

DnIdle ==
    /\ dn_pc = "idle"
    /\ dn_row = <<>>
    /\ dn_basename = ""
    /\ dn_suffix = ""
    /\ dn_result = [err |-> "", value |-> None]

CrIdle ==
    /\ cr_pc = "idle"
    /\ cr_row = <<>>
    /\ cr_awards_prices = EmptyPrices
    /\ cr_result = [err |-> "", source |-> None, value |-> None]

VgIdle ==
    /\ vg_pc = "idle"
    /\ vg_rows = <<>>
    /\ vg_result = [err |-> "", source |-> None, value |-> None, ignored |-> <<>>]

\* the calls of the other functions have not been made
OthersIdle == AaIdle /\ DnIdle /\ CrIdle /\ VgIdle

(***************************************************************************)
(* AwardPrices.merge as a state machine.                                   *)
(***************************************************************************)
InitMerge ==
    /\ OthersIdle
    /\ ap_pc = "init"
    /\ ap_self \in Tables
    /\ ap_other \in Tables
    /\ ap_merged = EmptyPrices
    /\ ap_date = 0
    /\ ap_symbol = ""
    /\ ap_got = [err |-> "", value |-> None]
    /\ UIdle
    /\ RaIdle
    /\ RsIdle
    /\ RcIdle

Merge ==
    /\ ap_pc = "init"
    /\ ap_merged' = merge(ap_self, ap_other)
    /\ ap_pc' = "merged"
    /\ UNCHANGED <<ap_self, ap_other, ap_date, ap_symbol, ap_got>>
    /\ UNCHANGED <<u_vars, ra_vars, rs_vars, rc_vars, aa_vars, dn_vars, cr_vars,
                   vg_vars>>

NextMerge == Merge

SpecMerge == InitMerge /\ [][NextMerge]_vars

(***************************************************************************)
(* AwardPrices.get as a state machine.                                     *)
(***************************************************************************)
InitGet ==
    /\ OthersIdle
    /\ ap_pc = "init"
    /\ ap_self \in Tables
    /\ ap_other = EmptyPrices
    /\ ap_merged = EmptyPrices
    /\ ap_date \in QueryDates
    /\ ap_symbol \in QuerySymbols
    /\ ap_got = [err |-> "", value |-> None]
    /\ UIdle
    /\ RaIdle
    /\ RsIdle
    /\ RcIdle

Get ==
    /\ ap_pc = "init"
    /\ ap_got' = get(ap_self, ap_date, ap_symbol)
    /\ ap_pc' = "got"
    /\ UNCHANGED <<ap_self, ap_other, ap_merged, ap_date, ap_symbol>>
    /\ UNCHANGED <<u_vars, ra_vars, rs_vars, rc_vars, aa_vars, dn_vars, cr_vars,
                   vg_vars>>

NextGet == Get

SpecGet == InitGet /\ [][NextGet]_vars

(***************************************************************************)
(* _unify_schwab_cash_merger_trxs as a state machine: one step per         *)
(* iteration of the for loop, then the return.  Its argument is a list of  *)
(* at most MaxTrx transactions, each built by SchwabTransaction.create     *)
(* from a row of UnifyRows.                                                *)
(***************************************************************************)
\* the columns of a Schwab transactions export
SchwabHeaders ==
    <<"Date", "Action", "Symbol", "Description", "Quantity", "Price",
      "Fees & Comm", "Amount">>

UnifyRows ==
    {<<"01/02/2024", "Cash Merger", "X", "MERGER", "", "", "$1", "$1000">>,
     <<"01/02/2024", "Cash Merger", "Y", "MERGER", "", "", "", "$1000">>,
     <<"01/02/2024", "Cash Merger", "X", "MERGER", "10", "", "", "$1000">>,
     <<"01/02/2024", "Cash Merger", "X", "MERGER", "", "", "", "">>,
     <<"01/02/2024", "Cash Merger Adj", "X", "MERGER", "-40", "", "$2", "">>,
     <<"01/02/2024", "Cash Merger Adj", "X", "MERGER", "0", "", "", "">>,
     <<"01/02/2024", "Cash Merger Adj", "X", "MERGER", "-40", "", "", "$50">>,
     <<"01/02/2024", "Cash Merger Adj", "X", "MERGER", "", "", "", "">>,
     <<"01/03/2024", "Cash Merger Adj", "X", "MERGER", "-10", "", "", "">>,
     <<"01/02/2024", "Cash Merger Adj", "X", "OTHER", "-10", "", "", "">>,
     <<"01/02/2024", "Sell", "X", "SALE", "10", "$5", "$1", "$50">>}

UnifyPool ==
    {create(RowDict(SchwabHeaders, row), None, EmptyPrices, <<"row", 0, 0>>).value[1] :
        row \in UnifyRows}

\* the i-th object of the list gets its own identity
Numbered(seq) == [i \in 1..Len(seq) |-> [seq[i] EXCEPT !.id = <<"row", 0, i>>]]

InitUnify ==
    /\ OthersIdle
    /\ ApIdle
    /\ RaIdle
    /\ RsIdle
    /\ RcIdle
    /\ u_pc = "loop"
    /\ \E n \in 0..MaxTrx : \E seq \in [1..n -> UnifyPool] :
          u_transactions = Numbered(seq)
    /\ u_i = 1
    /\ u_filtered = <<>>
    /\ u_warnings = <<>>
    /\ u_err = ""
    /\ u_result = None

\* one iteration of the for loop
UnifyIterate ==
    /\ u_pc = "loop"
    /\ u_i <= Len(u_transactions)
    /\ LET step == unify_step(u_filtered, u_transactions[u_i])
       IN  IF step.err # ""
           THEN /\ u_pc' = "raised"
                /\ u_err' = step.err
                /\ u_filtered' = step.filtered
                /\ UNCHANGED <<u_i, u_warnings>>
           ELSE /\ u_filtered' = step.filtered
                /\ u_warnings' = u_warnings \o step.warned
                /\ u_i' = u_i + 1
                /\ UNCHANGED <<u_pc, u_err>>
    /\ UNCHANGED <<u_transactions, u_result>>
    /\ UNCHANGED <<ap_vars, ra_vars, rs_vars, rc_vars, aa_vars, dn_vars, cr_vars,
                   vg_vars>>

\* return filtered
UnifyReturn ==
    /\ u_pc = "loop"
    /\ u_i > Len(u_transactions)
    /\ u_result' = Some(u_filtered)
    /\ u_pc' = "returned"
    /\ UNCHANGED <<u_transactions, u_i, u_filtered, u_warnings, u_err>>
    /\ UNCHANGED <<ap_vars, ra_vars, rs_vars, rc_vars, aa_vars, dn_vars, cr_vars,
                   vg_vars>>

NextUnify == UnifyIterate \/ UnifyReturn

SpecUnify == InitUnify /\ [][NextUnify]_vars

(***************************************************************************)
(* _read_schwab_awards as a state machine: one call on one award file.     *)
(***************************************************************************)
AwardHeaders == <<"Date", "Symbol", "FairMarketValuePrice">>

AwardHeaderPool == {AwardHeaders, <<"Date", "Symbol", "Price">>}

\* physical rows: the halves of a record, an empty row, a short row
AwardRowPool ==
    {<<"2024/01/01", "X", "">>,
     <<"", "", "$10">>,
     <<"01/02/2024", "FB", "">>,
     <<"", "X", "$20">>,
     <<"", "", "">>,
     <<"2024/01/01", "X">>}

AwardFiles ==
    {None,
     Some([name |-> "awards.csv", exists |-> FALSE, lines |-> <<>>]),
     Some([name |-> "awards.csv", exists |-> TRUE, lines |-> <<>>])}
    \cup {Some([name |-> "awards.csv", exists |-> TRUE, lines |-> <<h>> \o data]) :
            h \in AwardHeaderPool,
            data \in UNION {[1..n -> AwardRowPool] : n \in 0..MaxAwardRows}}

InitReadAwards ==
    /\ OthersIdle
    /\ ApIdle
    /\ UIdle
    /\ RsIdle
    /\ RcIdle
    /\ ra_pc = "call"
    /\ ra_file \in AwardFiles
    /\ ra_result = [err |-> "", source |-> None, value |-> None,
                    warnings |-> <<>>, rows |-> <<>>]

ReadAwards ==
    /\ ra_pc = "call"
    /\ ra_result' = read_schwab_awards(ra_file)
    /\ ra_pc' = "done"
    /\ UNCHANGED ra_file
    /\ UNCHANGED <<ap_vars, u_vars, rs_vars, rc_vars, aa_vars, dn_vars, cr_vars,
                   vg_vars>>

NextReadAwards == ReadAwards

SpecReadAwards == InitReadAwards /\ [][NextReadAwards]_vars

(***************************************************************************)
(* read_schwab_combined_transactions as a state machine: the two reads     *)
(* (lines 417-441), then the reconciliation (lines 443-456).               *)
(***************************************************************************)
\* data rows of the transactions files of this specification
CombinedRows ==
    {<<"01/01/2024", "Stock Plan Activity", "GOOG", "VEST", "10", "$5", "", "">>,
     <<"01/01/2024", "Sell", "GOOG", "SALE", "10", "$5", "$1", "$50">>,
     <<"01/02/2024", "Buy", "X", "BUY", "10", "$5", "$1", "-$50">>,
     <<"01/03/2024 as of 01/02/2024", "Stock Plan Activity", "GOOG", "VEST", "10",
       "", "", "">>,
     <<"01/02/2024", "Qualified Dividend", "GOOG", "DIV", "", "", "", "$20">>}

FolderRows ==
    {<<"01/01/2024", "Sell", "GOOG", "SALE", "10", "$5", "$1", "$50">>,
     <<"01/02/2024", "Buy", "X", "BUY", "10", "$5", "$1", "-$50">>}

\* a transactions file that exists, with the standard header row
CsvFile(name, data) == [name |-> name, exists |-> TRUE, lines |-> <<SchwabHeaders>> \o data]

SeqsUpTo(S, n) == UNION {[1..k -> S] : k \in 0..n}

CombinedFiles ==
    {None} \cup {Some(CsvFile("schwab.csv", data)) : data \in SeqsUpTo(CombinedRows, MaxRows)}

CombinedFolders ==
    {None}
    \cup {Some(<<CsvFile("dir/a.csv", <<row>>)>>) : row \in FolderRows}

\* what the equity award JSON reader hands over
EquityTransaction(date, action, symbol) ==
    [id |-> <<"equity", 0, 0>>, date |-> date, action |-> action,
     raw_action |-> "", symbol |-> Some(symbol), description |-> "",
     quantity |-> Some(10), price |-> Some(<<5, 1>>), fees |-> 0, amount |-> None,
     currency |-> "USD", broker |-> "Charles Schwab"]

EquityPool ==
    {EquityTransaction(1, "STOCK_ACTIVITY", "GOOG"),
     EquityTransaction(2, "SELL", "GOOG")}

\* the i-th object of the equity list gets its own identity
NumberedEquity(seq) == [i \in 1..Len(seq) |-> [seq[i] EXCEPT !.id = <<"equity", 0, i>>]]

EquityAwardPrices == TableOf({<<1, "GOOG", 10>>})

JsonResults ==
    {None}
    \cup {Some([transactions |-> NumberedEquity(seq), award_prices |-> EquityAwardPrices]) :
            seq \in SeqsUpTo(EquityPool, MaxEquity)}

InitCombined ==
    /\ OthersIdle
    /\ ApIdle
    /\ UIdle
    /\ RaIdle
    /\ RsIdle
    /\ rc_pc = "start"
    /\ \E tf \in CombinedFiles, fo \in CombinedFolders, js \in JsonResults :
          rc_args = [NoArgs EXCEPT !.transactions_file = tf,
                                   !.transactions_folder = fo,
                                   !.json = js]
    /\ rc_equity_transactions = <<>>
    /\ rc_award_prices = EmptyPrices
    /\ rc_transactions = <<>>
    /\ rc_warnings = <<>>
    /\ rc_err = [err |-> "", source |-> None]
    /\ rc_result = None

\* lines 417-441: read the equity awards, then the Schwab transactions
ReadSources ==
    /\ rc_pc = "start"
    /\ LET equity_transactions ==
               IF rc_args.json # None THEN rc_args.json[1].transactions ELSE <<>>
           award_prices ==
               IF rc_args.json # None THEN rc_args.json[1].award_prices ELSE EmptyPrices
           provided ==
               rc_args.transactions_file # None \/ rc_args.transactions_folder # None
           info ==
               IF rc_args.json # None THEN <<>>
               ELSE << <<"INFO: No schwab Equity Award JSON file provided", "">> >>
       IN  \E read \in
               {IF provided
                THEN read_schwab_transactions(rc_args.transactions_file,
                                              rc_args.transactions_folder,
                                              rc_args.award_file,
                                              rc_args.award_folder,
                                              award_prices)
                ELSE [err |-> "", source |-> None, value |-> Some(<<>>),
                      warnings |-> << <<"INFO: No schwab file provided", "">> >>]} :
           /\ rc_equity_transactions' = equity_transactions
           /\ rc_award_prices' = award_prices
           /\ rc_warnings' = info \o read.warnings
           /\ IF read.err # ""
              THEN /\ rc_pc' = "raised"
                   /\ rc_err' = [err |-> read.err, source |-> read.source]
                   /\ UNCHANGED rc_transactions
              ELSE /\ rc_pc' = "read"
                   /\ rc_transactions' = read.value[1]
                   /\ UNCHANGED rc_err
    /\ UNCHANGED <<rc_args, rc_result>>
    /\ UNCHANGED <<ap_vars, u_vars, ra_vars, rs_vars, aa_vars, dn_vars, cr_vars,
                   vg_vars>>

\* lines 443-456: filter, concatenate, sort, return
Reconcile ==
    /\ rc_pc = "read"
    /\ rc_result' = Some(reconcile(rc_equity_transactions, rc_transactions))
    /\ rc_warnings' =
          IF rc_equity_transactions # <<>>
          THEN rc_warnings \o removed_info(rc_transactions, 1,
                                           SymDates(rc_equity_transactions))
          ELSE rc_warnings
    /\ rc_pc' = "done"
    /\ UNCHANGED <<rc_args, rc_equity_transactions, rc_award_prices, rc_transactions,
                   rc_err>>
    /\ UNCHANGED <<ap_vars, u_vars, ra_vars, rs_vars, aa_vars, dn_vars, cr_vars,
                   vg_vars>>

NextCombined == ReadSources \/ Reconcile

SpecCombined == InitCombined /\ [][NextCombined]_vars

(***************************************************************************)
(* read_schwab_transactions as a state machine: one call.  A file of the   *)
(* arguments may be missing: a path that names no file, or a dangling      *)
(* entry of a folder.                                                      *)
(***************************************************************************)
\* data rows of the transactions files of this specification; the second
\* row takes its price from the award files
SchwabRows ==
    {<<"01/02/2024", "Sell", "GOOG", "SALE", "10", "$5", "$1", "$50">>,
     <<"01/01/2024", "Stock Plan Activity", "GOOG", "VEST", "10", "", "", "">>,
     <<"01/01/2024", "Buy", "X", "BUY", "10", "$5", "$1", "-$50">>,
     <<"01/02/2024", "Sell", "X", "SALE", "-10", "$5", "$1", "$50">>,
     <<"01/02/2024", "Cash Merger", "X", "MERGER", "", "", "$1", "$1000">>,
     <<"01/02/2024", "Cash Merger Adj", "X", "MERGER", "-40", "", "$2", "">>}

\* a path that names no file
MissingFile(name) == [name |-> name, exists |-> FALSE, lines |-> <<>>]

\* files that are found and are not a well-formed export: a header row
\* without the Amount column, a date that is no date, a row of two cells, a
\* ninth column that is not empty, an entirely empty row before a sale
MalformedFiles(name) ==
    {[name |-> name, exists |-> TRUE,
      lines |-> << <<"Date", "Action", "Symbol", "Description", "Quantity", "Price",
                     "Fees & Comm">>,
                   <<"01/02/2024", "Sell", "X", "SALE", "10", "$5", "$1">> >>],
     CsvFile(name, << <<"2024-01-02", "Sell", "X", "SALE", "10", "$5", "$1", "$50">> >>),
     CsvFile(name, << <<"01/02/2024", "Sell">> >>),
     [name |-> name, exists |-> TRUE,
      lines |-> <<SchwabHeaders \o <<"">>,
                  <<"01/02/2024", "Sell", "X", "SALE", "10", "$5", "$1", "$50", "x">> >>],
     CsvFile(name, << <<"", "", "", "", "", "", "", "">>,
                      <<"01/02/2024", "Sell", "X", "SALE", "10", "$5", "$1", "$50">> >>)}

SchwabFiles ==
    {None, Some(MissingFile("schwab.csv"))}
    \cup {Some(CsvFile("schwab.csv", data)) : data \in SeqsUpTo(SchwabRows, MaxRows)}
    \cup {Some(file) : file \in MalformedFiles("schwab.csv")}

SchwabFolders ==
    LET a == CsvFile("dir/a.csv",
                     << <<"01/01/2024", "Sell", "X", "SALE", "10", "$5", "$1", "$50">> >>)
        b == MissingFile("dir/b.csv")
        c == CsvFile("dir/c.csv",
                     << <<"01/02/2024", "Cash Merger Adj", "X", "MERGER", "-40", "",
                          "$2", "">> >>)
        e == CsvFile("dir/e.csv",
                     << <<"01/02/2024", "Sell", "X", "SALE", "10", "$5", "$1", "$50">>,
                        <<"01/02/2024", "Sell", "GOOG", "SALE", "10", "$5", "$1", "$50">> >>)
    IN  {None, Some(<<b>>), Some(<<a>>), Some(<<a, b>>), Some(<<b, a>>), Some(<<c>>),
         Some(<<e>>)}
        \cup {Some(<<file>>) : file \in MalformedFiles("dir/d.csv")}

\* an award file with the price of GOOG on 2024-01-01
AwardCsv(name) ==
    [name |-> name, exists |-> TRUE,
     lines |-> <<AwardHeaders, <<"2024/01/01", "GOOG", "">>, <<"", "", "$10">> >>]

SchwabAwardFiles ==
    {None, Some(MissingFile("awards.csv")), Some(AwardCsv("awards.csv"))}

SchwabAwardFolders ==
    {None,
     Some(<<MissingFile("awards/b.csv")>>),
     Some(<<MissingFile("awards/b.csv"), AwardCsv("awards/c.csv")>>)}

InitSchwab ==
    /\ OthersIdle
    /\ ApIdle
    /\ UIdle
    /\ RaIdle
    /\ RcIdle
    /\ rs_pc = "call"
    /\ \E tf \in SchwabFiles, fo \in SchwabFolders,
          af \in SchwabAwardFiles, afo \in SchwabAwardFolders :
          rs_args = [NoArgs EXCEPT !.transactions_file = tf,
                                   !.transactions_folder = fo,
                                   !.award_file = af,
                                   !.award_folder = afo]
    /\ rs_result = NoResult

ReadSchwabTransactions ==
    /\ rs_pc = "call"
    /\ rs_result' = read_schwab_transactions(rs_args.transactions_file,
                                             rs_args.transactions_folder,
                                             rs_args.award_file,
                                             rs_args.award_folder,
                                             rs_args.award_prices)
    /\ rs_pc' = "done"
    /\ UNCHANGED rs_args
    /\ UNCHANGED <<ap_vars, u_vars, ra_vars, rc_vars, aa_vars, dn_vars, cr_vars,
                   vg_vars>>

NextSchwab == ReadSchwabTransactions

SpecSchwab == InitSchwab /\ [][NextSchwab]_vars

(***************************************************************************)
(* _read_schwab_awards_all as a state machine: one call.  The folder is    *)
(* the set of its *.csv files; Path.glob yields them in the order of the   *)
(* directory listing, which is any order.                                  *)
(***************************************************************************)
\* the names of the files of the folder, in sorted order
AwardFolderNames == <<"awards/a.csv", "awards/b.csv", "awards/c.csv", "awards/d.csv">>

\* the data rows of an award file: one record
AwardContents ==
    {<< <<"2024/01/01", "GOOG", "">>, <<"", "", "$10">> >>,
     << <<"2024/01/01", "GOOG", "">>, <<"", "", "$20">> >>,
     << <<"2024/01/01", "X", "">>, <<"", "", "$10">> >>}

AwardFileOf(name, data) ==
    [name |-> name, exists |-> TRUE, lines |-> <<AwardHeaders>> \o data]

\* the folders: each name is absent or names a file of one of the contents
AwardFolders ==
    {{AwardFileOf(AwardFolderNames[i], pick[i]) : i \in {j \in DOMAIN pick : pick[j] # <<>>}} :
        pick \in [1..MaxAwardFiles -> AwardContents \cup {<<>>}]}

\* the orders in which the files of a set can be listed
Orders(S) ==
    {seq \in [1..Cardinality(S) -> S] :
        \A i, j \in 1..Cardinality(S) : seq[i] = seq[j] => i = j}

InitAwardsAll ==
    /\ ApIdle /\ UIdle /\ RaIdle /\ RsIdle /\ RcIdle
    /\ DnIdle /\ CrIdle /\ VgIdle
    /\ aa_pc = "call"
    /\ aa_file \in {None} \cup {Some(AwardFileOf("awards.csv", data)) : data \in AwardContents}
    /\ aa_folder \in AwardFolders
    /\ aa_order = <<>>
    /\ aa_result = NoResult

ReadAwardsAll ==
    /\ aa_pc = "call"
    /\ \E order \in Orders(aa_folder) :
          /\ aa_order' = order
          /\ aa_result' = read_schwab_awards_all(aa_file, Some(order))
    /\ aa_pc' = "done"
    /\ UNCHANGED <<aa_file, aa_folder>>
    /\ UNCHANGED <<ap_vars, u_vars, ra_vars, rs_vars, rc_vars, dn_vars, cr_vars, vg_vars>>

NextAwardsAll == ReadAwardsAll

SpecAwardsAll == InitAwardsAll /\ [][NextAwardsAll]_vars

(***************************************************************************)
(* read_vanguard_transactions as a state machine: one call on the rows of  *)
(* a report with an investment section, a cash section, or both.           *)
(***************************************************************************)
InvestmentHeaders ==
    <<"Date", "InvestmentName", "TransactionDetails", "Quantity", "Price", "Cost">>

CashHeaders == <<"Date", "Details", "Amount", "Balance">>

\* rows of an investment section: a purchase, two sales, a row whose details
\* are neither, an entirely empty row, a name the symbol pattern matches,
\* the closing Cost row
InvestmentRows ==
    {<<"02/01/2024", "Fund A", "Bought 10 Fund A", "10", "5", "50">>,
     <<"01/01/2024", "Fund A", "Sold 5 Fund A", "5", "10", "-50">>,
     <<"01/01/2024", "Fund A", "Sold Fund A", "-10", "5", "-50">>,
     <<"01/01/2024", "Fund A", "Transfer in", "10", "5", "50">>,
     <<"", "", "", "", "", "">>,
     <<"01/01/2024", "Fund (ulna)", "Sold Fund A", "10", "5", "-50">>,
     <<"Cost", "", "", "", "", "50">>}

\* rows of a cash section: a deposit, a dividend, a row whose details match
\* no pattern, the closing Balance row
CashRows ==
    {<<"01/01/2024", "Deposit", "1,000", "1,000">>,
     <<"02/01/2024", "DIV: Fund A", "5", "1000">>,
     <<"02/01/2024", "Withdrawal", "-50", "1000">>,
     <<"Balance", "", "", "1000">>}

InvestmentSections ==
    {<< <<"Investment Transactions">> >> \o lead \o <<InvestmentHeaders>> \o data :
        lead \in {<<>>, << <<"", "">> >>},
        data \in SeqsUpTo(InvestmentRows, MaxVgRows)}
    \cup {<< <<"Investment Transactions">> >>,
          << <<"Investment Transactions">>, <<"Date", "Quantity", "Price", "Cost">> >>}

CashSections ==
    {<< <<"Cash Transactions">>, CashHeaders >> \o data :
        data \in SeqsUpTo(CashRows, MaxVgRows)}

VanguardReports ==
    {inv \o cash : inv \in InvestmentSections \cup {<<>>},
                   cash \in CashSections \cup {<<>>, << <<>> >>}}

InitVanguard ==
    /\ ApIdle /\ UIdle /\ RaIdle /\ RsIdle /\ RcIdle
    /\ AaIdle /\ DnIdle /\ CrIdle
    /\ vg_pc = "call"
    /\ vg_rows \in VanguardReports
    /\ vg_result = [err |-> "", source |-> None, value |-> None, ignored |-> <<>>]

ReadVanguard ==
    /\ vg_pc = "call"
    /\ vg_result' = read_vanguard_transactions(vg_rows)
    /\ vg_pc' = "done"
    /\ UNCHANGED vg_rows
    /\ UNCHANGED <<ap_vars, u_vars, ra_vars, rs_vars, rc_vars, aa_vars, dn_vars, cr_vars>>

NextVanguard == ReadVanguard

SpecVanguard == InitVanguard /\ [][NextVanguard]_vars

(***************************************************************************)
(* decimal_from_number_or_str as a state machine: one call.                *)
(***************************************************************************)
\* the values a field of the row can hold: a string field holds a string or
\* None, a number field a number or None
StringFieldValues == {None, Some("5"), Some("$1,000"), Some("n/a")}
NumberFieldValues == {None, Some(0), Some(7)}

\* the dict with the one field, or the empty dict when given <<>>
Field(name, given) ==
    [k \in {n \in {name} : given # <<>>} |-> given[1]]

\* the rows: any of the fields may be missing
NumberRows ==
    {Field("key", a) @@ Field("keySortValue", b) @@ Field("keyMySuffix", c) :
        a \in {<<>>} \cup {<<v>> : v \in StringFieldValues},
        b \in {<<>>} \cup {<<v>> : v \in NumberFieldValues},
        c \in {<<>>} \cup {<<v>> : v \in NumberFieldValues}}

InitDecimal ==
    /\ ApIdle /\ UIdle /\ RaIdle /\ RsIdle /\ RcIdle
    /\ AaIdle /\ CrIdle /\ VgIdle
    /\ dn_pc = "call"
    /\ dn_row \in NumberRows
    /\ dn_basename \in {"key", "otherkey"}
    /\ dn_suffix \in {"SortValue", "MySuffix"}
    /\ dn_result = [err |-> "", value |-> None]

DecimalFromNumberOrStr ==
    /\ dn_pc = "call"
    /\ dn_result' = decimal_from_number_or_str(dn_row, dn_basename, dn_suffix)
    /\ dn_pc' = "done"
    /\ UNCHANGED <<dn_row, dn_basename, dn_suffix>>
    /\ UNCHANGED <<ap_vars, u_vars, ra_vars, rs_vars, rc_vars, aa_vars, cr_vars, vg_vars>>

NextDecimal == DecimalFromNumberOrStr

SpecDecimal == InitDecimal /\ [][NextDecimal]_vars

(***************************************************************************)
(* SchwabTransaction.create as a state machine: one call on one row and    *)
(* one table of award prices.                                              *)
(***************************************************************************)
CreateDates ==
    {"01/02/2024", "01/08/2024", "01/09/2024", "01/03/2024 as of 01/02/2024"}

\* vests and sales, with and without a symbol and a price
CreateRows ==
    {<<date, action, symbol, "ROW", "10", price, "", "">> :
        date \in CreateDates,
        action \in {"Stock Plan Activity", "Sell"},
        symbol \in {"X", "FB", ""},
        price \in {"", "$5"}}

InitCreate ==
    /\ ApIdle /\ UIdle /\ RaIdle /\ RsIdle /\ RcIdle
    /\ AaIdle /\ DnIdle /\ VgIdle
    /\ cr_pc = "call"
    /\ cr_row \in CreateRows
    /\ cr_awards_prices \in Tables
    /\ cr_result = [err |-> "", source |-> None, value |-> None]

Create ==
    /\ cr_pc = "call"
    /\ cr_result' = create(RowDict(SchwabHeaders, cr_row), None, cr_awards_prices,
                           <<"row", 0, 0>>)
    /\ cr_pc' = "done"
    /\ UNCHANGED <<cr_row, cr_awards_prices>>
    /\ UNCHANGED <<ap_vars, u_vars, ra_vars, rs_vars, rc_vars, aa_vars, dn_vars, vg_vars>>

NextCreate == Create

SpecCreate == InitCreate /\ [][NextCreate]_vars

(***************************************************************************)
(* C1.  A.merge(B) maps every (date, symbol) key of B to B's price and     *)
(* every key present only in A to A's price, and has no other keys.  The   *)
(* code replaces A's whole symbol dict on a date both tables hold, so a    *)
(* symbol only A has on such a date is lost.                               *)
(***************************************************************************)
C1_MergePrecedence ==
    ap_pc = "merged" =>
        /\ PriceKeys(ap_merged) = PriceKeys(ap_self) \cup PriceKeys(ap_other)
        /\ \A k \in PriceKeys(ap_other) :
              HasPrice(ap_merged, k[1], k[2])
              /\ ap_merged[k[1]][k[2]] = ap_other[k[1]][k[2]]
        /\ \A k \in PriceKeys(ap_self) \ PriceKeys(ap_other) :
              HasPrice(ap_merged, k[1], k[2])
              /\ ap_merged[k[1]][k[2]] = ap_self[k[1]][k[2]]

(***************************************************************************)
(* C2.  get(d, s) returns (d - i, price) for the smallest i in 0..6 with   *)
(* an entry for the renamed symbol on day d - i, and raises KeyError when  *)
(* there is none; the date returned is never later than d and never 7 or   *)
(* more days before it.                                                    *)
(***************************************************************************)
C2_Hits == {i \in 0..6 : HasPrice(ap_self, ap_date - i, TickerRename(ap_symbol))}

C2_BackwardWindow ==
    ap_pc = "got" =>
        IF C2_Hits = {}
        THEN ap_got.err = "KeyError" /\ ap_got.value = None
        ELSE /\ ap_got.err = ""
             /\ ap_got.value[1] = ap_date - Min(C2_Hits)
             /\ ap_got.value[2] = ap_self[ap_date - Min(C2_Hits)][TickerRename(ap_symbol)]
             /\ ap_got.value[1] <= ap_date
             /\ ap_date - ap_got.value[1] <= 6

\* a price found exactly 6 days back, a renamed symbol, a nearer entry preferred
C2_Witness ==
    /\ ap_pc = "got"
    /\ ap_symbol = "FB"
    /\ ap_got.err = ""
    /\ ap_got.value[1] = ap_date - 6
    /\ HasPrice(ap_self, ap_date - 7, "META")

(***************************************************************************)
(* C3.  When read_schwab_combined_transactions returns and the equity      *)
(* award source is non-empty, no STOCK_ACTIVITY transaction of the Schwab  *)
(* source whose (date, symbol) occurs in the equity award source is in the *)
(* output, and every equity award transaction is in the output exactly     *)
(* once, as it was read.                                                   *)
(***************************************************************************)
\* the positions of the object t in the returned list
C3_At(t) == {p \in 1..Len(rc_result[1]) : rc_result[1][p].id = t.id}

\* some equity award transaction has the date and symbol of t
C3_Covered(t) ==
    \E i \in 1..Len(rc_equity_transactions) :
        /\ rc_equity_transactions[i].date = t.date
        /\ rc_equity_transactions[i].symbol = t.symbol

C3_Deduplication ==
    (rc_pc = "done" /\ rc_equity_transactions # <<>>) =>
        /\ \A k \in 1..Len(rc_transactions) :
              (rc_transactions[k].action = "STOCK_ACTIVITY"
                  /\ C3_Covered(rc_transactions[k]))
              => C3_At(rc_transactions[k]) = {}
        /\ \A i \in 1..Len(rc_equity_transactions) :
              /\ Cardinality(C3_At(rc_equity_transactions[i])) = 1
              /\ \A p \in C3_At(rc_equity_transactions[i]) :
                    rc_result[1][p] = rc_equity_transactions[i]

\* a vest of GOOG on 2024-01-01 read from both sources
C3_Witness ==
    /\ rc_pc = "done"
    /\ Len(rc_equity_transactions) = 2
    /\ \E k \in 1..Len(rc_transactions) :
          /\ rc_transactions[k].action = "STOCK_ACTIVITY"
          /\ rc_transactions[k].date = 1
          /\ rc_transactions[k].symbol = Some("GOOG")
          /\ C3_Covered(rc_transactions[k])
          /\ C3_At(rc_transactions[k]) = {}
    /\ Len(rc_result[1]) > Len(rc_equity_transactions)

(***************************************************************************)
(* C4.  Every transaction of the Schwab source whose action is not         *)
(* STOCK_ACTIVITY is in the output of read_schwab_combined_transactions,   *)
(* also when its (date, symbol) occurs in the equity award source.  The    *)
(* code tests the (date, symbol) only, so a sale or a dividend of a        *)
(* covered (date, symbol) is removed.                                      *)
(***************************************************************************)
C4_OnlyStockActivityDropped ==
    rc_pc = "done" =>
        \A k \in 1..Len(rc_transactions) :
            rc_transactions[k].action # "STOCK_ACTIVITY"
            => \E p \in 1..Len(rc_result[1]) :
                  rc_result[1][p].id = rc_transactions[k].id

(***************************************************************************)
(* C5.  The list read_schwab_combined_transactions returns is in ascending *)
(* date order whatever sources are given, and two transactions of one date *)
(* stand in the order of the concatenation: equity award transactions      *)
(* first, then the remaining Schwab transactions, each group in the order  *)
(* it had.                                                                 *)
(***************************************************************************)
\* the place of t in equity_transactions followed by transactions
C5_Place(t) ==
    IF t.id[1] = "equity"
    THEN CHOOSE i \in 1..Len(rc_equity_transactions) :
            rc_equity_transactions[i].id = t.id
    ELSE Len(rc_equity_transactions)
         + (CHOOSE k \in 1..Len(rc_transactions) : rc_transactions[k].id = t.id)

C5_Ordering ==
    rc_pc = "done" =>
        \A p, q \in 1..Len(rc_result[1]) :
            p < q =>
                /\ rc_result[1][p].date <= rc_result[1][q].date
                /\ rc_result[1][p].date = rc_result[1][q].date
                      => C5_Place(rc_result[1][p]) < C5_Place(rc_result[1][q])

\* an equity award sale and a Schwab purchase of 2024-01-02, after a
\* transaction of 2024-01-01 read later than one of 2024-01-02
C5_Witness ==
    /\ rc_pc = "done"
    /\ \E p, q \in 1..Len(rc_result[1]) :
          /\ p < q
          /\ rc_result[1][p].date = 2
          /\ rc_result[1][q].date = 2
          /\ rc_result[1][p].id[1] = "equity"
          /\ rc_result[1][q].id[1] = "schwab"
    /\ \E p, q \in 1..Len(rc_result[1]) :
          /\ p < q
          /\ rc_result[1][p].date < rc_result[1][q].date
          /\ C5_Place(rc_result[1][p]) > C5_Place(rc_result[1][q])

(***************************************************************************)
(* C6.  When the equity award source has no transactions (no JSON input,   *)
(* or one that yields none), read_schwab_combined_transactions returns the *)
(* list read_schwab_transactions returned: the same transactions with the  *)
(* same field values, none removed or added, in ascending date order.      *)
(***************************************************************************)
C6_EmptyEquity ==
    rc_args.json = None \/ rc_args.json[1].transactions = <<>>

C6_EmptyHigherPrecision ==
    (rc_pc = "done" /\ C6_EmptyEquity) =>
        /\ rc_result = Some(rc_transactions)
        /\ \A p, q \in 1..Len(rc_result[1]) :
              p < q => rc_result[1][p].date <= rc_result[1][q].date
        /\ Len(rc_result[1]) =
              Cardinality({<<f, k>> \in (1..2) \X (1..(MaxRows + 1)) :
                  LET files == FileList(rc_args.transactions_file,
                                        rc_args.transactions_folder)
                  IN  /\ f <= Len(files)
                      /\ k < Len(files[f].lines)
                      /\ AnyCell(files[f].lines[k + 1])})

\* a JSON input without transactions, and Schwab rows given in descending
\* date order
C6_Witness ==
    /\ rc_pc = "done"
    /\ rc_args.json # None
    /\ rc_args.json[1].transactions = <<>>
    /\ rc_args.transactions_file # None
    /\ Len(rc_args.transactions_file[1].lines) = 3
    /\ rc_args.transactions_file[1].lines[2][1] = "01/01/2024"
    /\ rc_args.transactions_file[1].lines[3][1] = "01/02/2024"
    /\ Len(rc_result[1]) = 2

(***************************************************************************)
(* C7.  When the unifier returns, a primary cash-merger row (amount a, no  *)
(* quantity, no price) that was immediately followed by its adjustment row *)
(* (quantity q, no amount) stands in the output as one transaction with    *)
(* quantity -q, price a / (-q), the sum of both rows' fees, and the        *)
(* primary's amount, date, symbol and description; the adjustment row is   *)
(* not in the output.                                                      *)
(***************************************************************************)
C7_IsPrimary(t) ==
    t.raw_action = "Cash Merger" /\ t.amount # None /\ t.quantity = None /\ t.price = None

C7_IsAdjustmentOf(t, p) ==
    /\ t.raw_action = "Cash Merger Adj"
    /\ t.quantity # None /\ t.amount = None
    /\ t.symbol = p.symbol /\ t.date = p.date /\ t.description = p.description

C7_Pairs ==
    {i \in 1..(Len(u_transactions) - 1) :
        /\ C7_IsPrimary(u_transactions[i])
        /\ C7_IsAdjustmentOf(u_transactions[i + 1], u_transactions[i])}

C7_CashMergerFolding ==
    u_pc = "returned" =>
        \A i \in C7_Pairs :
            LET p == u_transactions[i]
                adj == u_transactions[i + 1]
                out == u_result[1]
                at == {k \in 1..Len(out) : out[k].id = p.id}
            IN  /\ Cardinality(at) = 1
                /\ \A k \in 1..Len(out) : out[k].id # adj.id
                /\ \A k \in at :
                      /\ out[k].quantity = Some(0 - adj.quantity[1])
                      /\ out[k].price # None
                      /\ out[k].price[1][2] > 0
                      /\ out[k].price[1][1] * (0 - adj.quantity[1])
                            = p.amount[1] * out[k].price[1][2]
                      /\ out[k].fees = p.fees + adj.fees
                      /\ out[k].amount = p.amount
                      /\ out[k].date = p.date
                      /\ out[k].symbol = p.symbol
                      /\ out[k].description = p.description

\* amount 1000 and quantity -40 fold into quantity 40 at price 25, fees 1 + 2
C7_Witness ==
    /\ u_pc = "returned"
    /\ C7_Pairs # {}
    /\ \E k \in 1..Len(u_result[1]) :
          /\ u_result[1][k].quantity = Some(40)
          /\ u_result[1][k].price = Some(<<25, 1>>)
          /\ u_result[1][k].fees = 3
          /\ u_result[1][k].amount = Some(1000)

(***************************************************************************)
(* C8.  An adjustment row is folded only if the last transaction of the    *)
(* buffer is a primary cash-merger row not folded yet (no quantity, no     *)
(* price, an amount) with the adjustment's symbol, date and description;   *)
(* when it is not, the pass raises AssertionError and returns nothing; no  *)
(* primary is folded twice.                                                *)
(***************************************************************************)
C8_Matches(filtered, t) ==
    /\ Len(filtered) > 0
    /\ filtered[Len(filtered)].raw_action = "Cash Merger"
    /\ filtered[Len(filtered)].quantity = None
    /\ filtered[Len(filtered)].price = None
    /\ filtered[Len(filtered)].amount # None
    /\ filtered[Len(filtered)].symbol = t.symbol
    /\ filtered[Len(filtered)].date = t.date
    /\ filtered[Len(filtered)].description = t.description

C8_Step ==
    (u_pc = "loop" /\ u_i <= Len(u_transactions)
        /\ u_transactions[u_i].raw_action = "Cash Merger Adj")
    => /\ (u_filtered' # u_filtered \/ u_warnings' # u_warnings)
            => C8_Matches(u_filtered, u_transactions[u_i])
       /\ ~C8_Matches(u_filtered, u_transactions[u_i])
            => (u_pc' = "raised" /\ u_err' = "AssertionError"
                /\ u_result' = None /\ u_filtered' = u_filtered)

C8_FoldedOnce ==
    /\ \A j, k \in 1..Len(u_warnings) : u_warnings[j] = u_warnings[k] => j = k
    /\ u_pc = "raised" => u_result = None

C8_UnmatchedAdjustmentFatal == [][C8_Step]_vars /\ []C8_FoldedOnce

\* a second adjustment after a folded primary has raised AssertionError
C8_Witness ==
    /\ u_pc = "raised"
    /\ u_err = "AssertionError"
    /\ u_transactions[u_i].raw_action = "Cash Merger Adj"
    /\ Len(u_filtered) > 0
    /\ Len(u_warnings) = 1
    /\ u_filtered[Len(u_filtered)].id = u_warnings[1]
    /\ u_filtered[Len(u_filtered)].quantity # None

(***************************************************************************)
(* C9.  _read_schwab_awards pairs the data rows by position.  With an odd  *)
(* number of data rows it raises the row-count error; a pair in which some *)
(* column is non-empty in both rows makes it fail, with AssertionError     *)
(* when every pair before it is accepted; either way no table is           *)
(* returned.  When it returns, each cell of each combined row is the       *)
(* non-empty one of the two halves, and the table holds exactly the        *)
(* (date, symbol) of the pairs that have both a symbol and a price.        *)
(***************************************************************************)
\* the file was opened and its header row accepted
C9_Parsed ==
    /\ ra_file # None
    /\ ra_file[1].exists
    /\ Len(ra_file[1].lines) > 0
    /\ {"Date", "Symbol", "FairMarketValuePrice"} \subseteq Range(ra_file[1].lines[1])

C9_Data == Tail(ra_file[1].lines)

C9_Width(k) == Min({Len(C9_Data[2 * k - 1]), Len(C9_Data[2 * k])})

C9_Conflict(k) ==
    \E c \in 1..C9_Width(k) : C9_Data[2 * k - 1][c] # "" /\ C9_Data[2 * k][c] # ""

C9_Cell(k, c) ==
    IF C9_Data[2 * k - 1][c] # "" THEN C9_Data[2 * k - 1][c] ELSE C9_Data[2 * k][c]

C9_Dates ==
    ("2024/01/01" :> 1) @@ ("01/02/2024" :> 2)

\* the pair is combined and parsed without an exception
C9_Accepted(k) ==
    /\ ~C9_Conflict(k)
    /\ C9_Width(k) = 3
    /\ C9_Cell(k, 1) \in DOMAIN C9_Dates
    /\ C9_Cell(k, 3) \in {"", "$10", "$20"}

C9_RowPairing ==
    (ra_pc = "done" /\ C9_Parsed) =>
        LET pairs == 1..(Len(C9_Data) \div 2)
        IN  /\ Len(C9_Data) % 2 = 1 =>
                  (ra_result.err = "UnexpectedRowCountError" /\ ra_result.value = None)
            /\ \A k \in pairs :
                  C9_Conflict(k) => (ra_result.err # "" /\ ra_result.value = None)
            /\ \A k \in pairs :
                  (Len(C9_Data) % 2 = 0 /\ C9_Conflict(k)
                      /\ \A j \in 1..(k - 1) : C9_Accepted(j))
                  => ra_result.err = "AssertionError"
            /\ ra_result.err = "" =>
                  /\ Len(ra_result.rows) = Len(C9_Data) \div 2
                  /\ \A k \in pairs :
                        /\ Len(ra_result.rows[k]) = C9_Width(k)
                        /\ \A c \in 1..C9_Width(k) :
                              ra_result.rows[k][c] = C9_Cell(k, c)
                  /\ PriceKeys(ra_result.value[1]) =
                        {<<C9_Dates[C9_Cell(k, 1)],
                           IF C9_Cell(k, 2) = "FB" THEN "META" ELSE C9_Cell(k, 2)>> :
                            k \in {j \in pairs : C9_Cell(j, 2) # "" /\ C9_Cell(j, 3) # ""}}

\* the second pair holds a symbol in both rows, after an accepted first pair
C9_Witness ==
    /\ ra_pc = "done"
    /\ C9_Parsed
    /\ Len(C9_Data) = 4
    /\ C9_Accepted(1)
    /\ C9_Cell(1, 2) # ""
    /\ C9_Cell(1, 3) # ""
    /\ C9_Conflict(2)
    /\ ra_result.err = "AssertionError"
    /\ ra_result.value = None

(***************************************************************************)
(* C10.  A file handed to read_schwab_transactions or                      *)
(* _read_schwab_awards_all that cannot be found adds no transaction and no *)
(* price, a warning names it, and the call ends as it ends without that    *)
(* file: FileNotFoundError does not reach the caller, and the files that   *)
(* are found add their transactions and prices.                            *)
(***************************************************************************)
\* the file argument without a file that cannot be found
C10_FoundFile(file) == IF file # None /\ ~file[1].exists THEN None ELSE file

\* the folder argument without the files that cannot be found
C10_FoundFolder(folder) ==
    IF folder = None THEN None
    ELSE Some(SelectSeq(folder[1], LAMBDA file : file.exists))

\* the same call on the files that are found
C10_Found ==
    read_schwab_transactions(C10_FoundFile(rs_args.transactions_file),
                             C10_FoundFolder(rs_args.transactions_folder),
                             C10_FoundFile(rs_args.award_file),
                             C10_FoundFolder(rs_args.award_folder),
                             rs_args.award_prices)

\* the field values of the transactions, without the identity
C10_Values(value) ==
    IF value = None THEN None
    ELSE Some([i \in 1..Len(value[1]) |-> [value[1][i] EXCEPT !.id = <<>>]])

C10_Missing(file, folder) ==
    {f \in Range(FileList(file, folder)) : ~f.exists}

C10_MissingInputNonFatal ==
    rs_pc = "done" =>
        /\ rs_result.err # "FileNotFoundError"
        /\ rs_result.err = C10_Found.err
        /\ C10_Values(rs_result.value) = C10_Values(C10_Found.value)
        /\ \A f \in C10_Missing(rs_args.award_file, rs_args.award_folder) :
              <<"WARNING: Couldn't locate Schwab award file", f.name>>
                  \in Range(rs_result.warnings)
        /\ \A f \in C10_Missing(rs_args.transactions_file,
                                 rs_args.transactions_folder) :
              rs_result.err = ""
              => <<"WARNING: Couldn't locate Schwab transactions file", f.name>>
                    \in Range(rs_result.warnings)

\* a transactions file and an award file that cannot be found, next to a
\* folder entry that is read and an award file that prices a vest
C10_Witness ==
    /\ rs_pc = "done"
    /\ rs_result.err = ""
    /\ rs_args.transactions_file # None
    /\ rs_args.transactions_file[1].exists
    /\ C10_Missing(rs_args.transactions_file, rs_args.transactions_folder) # {}
    /\ C10_Missing(rs_args.award_file, rs_args.award_folder) # {}
    /\ Len(rs_result.warnings) = 3
    /\ \E i, j \in 1..Len(rs_result.value[1]) :
          /\ rs_result.value[1][i].id[2] = 1
          /\ rs_result.value[1][i].action = "STOCK_ACTIVITY"
          /\ rs_result.value[1][i].price = Some(<<10, 1>>)
          /\ rs_result.value[1][j].id[2] > 1

(***************************************************************************)
(* C11.  The reconciliation of read_schwab_combined_transactions changes   *)
(* no transaction of either source, and the list it returns holds the      *)
(* equity award transactions and the Schwab transactions it keeps: the     *)
(* same objects with the same field values, each once, and nothing else.   *)
(***************************************************************************)
\* the reconciliation leaves the two lists it was given as they are
C11_Step ==
    rc_pc = "read" =>
        /\ rc_equity_transactions' = rc_equity_transactions
        /\ rc_transactions' = rc_transactions

C11_Sources == rc_equity_transactions \o rc_transactions

C11_Output ==
    rc_pc = "done" =>
        /\ \A p \in 1..Len(rc_result[1]) :
              \E i \in 1..Len(C11_Sources) : C11_Sources[i] = rc_result[1][p]
        /\ \A p, q \in 1..Len(rc_result[1]) :
              rc_result[1][p].id = rc_result[1][q].id => p = q
        /\ \A i \in 1..Len(rc_equity_transactions) :
              \E p \in 1..Len(rc_result[1]) :
                  rc_result[1][p] = rc_equity_transactions[i]
        /\ rc_equity_transactions = <<>> =>
              \A k \in 1..Len(rc_transactions) :
                  \E p \in 1..Len(rc_result[1]) : rc_result[1][p] = rc_transactions[k]

C11_FilterAndReorderOnly == [][C11_Step]_vars /\ []C11_Output

\* one Schwab transaction removed, one kept, and the kept one moved in
\* front of an equity award transaction
C11_Witness ==
    /\ rc_pc = "done"
    /\ Len(rc_equity_transactions) = 2
    /\ Len(rc_transactions) = 2
    /\ Len(rc_result[1]) = 3
    /\ rc_result[1][1].id[1] = "schwab"
    /\ rc_result[1][2].id[1] = "equity"

(***************************************************************************)
(* C12.  Every transaction of the list read_schwab_transactions returns    *)
(* has no quantity or a quantity that is not negative.  The constructor    *)
(* takes the Quantity cell as it is written, so a row with a negative      *)
(* quantity outside a cash merger yields a negative quantity.              *)
(***************************************************************************)
C12_QuantityNonNegative ==
    (rs_pc = "done" /\ rs_result.err = "") =>
        \A i \in 1..Len(rs_result.value[1]) :
            \/ rs_result.value[1][i].quantity = None
            \/ rs_result.value[1][i].quantity[1] >= 0

(***************************************************************************)
(* C13.  When read_schwab_transactions fails with a structural parsing     *)
(* error (header columns missing, wrong number of columns, ninth column    *)
(* not empty, bad date) while it processes the file F, the error carries   *)
(* the name of F, for the single transactions file and for a file of the   *)
(* folder.  The code hands the transactions_file argument to the error,    *)
(* so a failure in a file of the folder names the single file, or None.    *)
(***************************************************************************)
C13_Files == FileList(rs_args.transactions_file, rs_args.transactions_folder)

\* the files whose processing ends with an exception
C13_Failing ==
    {f \in 1..Len(C13_Files) :
        read_transactions_file(
            C13_Files[f], f, None,
            merge(rs_args.award_prices,
                  read_schwab_awards_all(rs_args.award_file,
                                         rs_args.award_folder).value[1])).err # ""}

C13_ErrorNamesFile ==
    (rs_pc = "done"
        /\ rs_result.err \in {"ParsingError", "UnexpectedColumnCountError"}) =>
        /\ C13_Failing # {}
        /\ rs_result.source = Some(C13_Files[Min(C13_Failing)].name)

(***************************************************************************)
(* C14.  _read_schwab_awards_all folds the award files in the order        *)
(* "single file, then the files of the folder in sorted order", so that    *)
(* the table depends on the set of files only and a (date, symbol) of      *)
(* several files has the price of the file that is last in that order.     *)
(* The code takes the files of the folder in the order Path.glob yields    *)
(* them and does not sort them.                                            *)
(***************************************************************************)
\* the place of a file of the folder in the sorted order of the names
C14_Rank(file) == CHOOSE i \in DOMAIN AwardFolderNames : AwardFolderNames[i] = file.name

\* the files of the folder in sorted order
C14_Sorted ==
    CHOOSE seq \in Orders(aa_folder) :
        \A i, j \in 1..Len(seq) : i < j => C14_Rank(seq[i]) < C14_Rank(seq[j])

\* the price of the last file, in the order file then sorted folder, that
\* has the key
C14_LastPrice(d, sym) ==
    LET files == FileList(aa_file, Some(C14_Sorted))
        has(f) == HasPrice(read_schwab_awards(Some(files[f])).value[1], d, sym)
        last == CHOOSE f \in 1..Len(files) :
                    has(f) /\ \A g \in (f + 1)..Len(files) : ~has(g)
    IN  read_schwab_awards(Some(files[last])).value[1][d][sym]

C14_DeterministicOrder ==
    aa_pc = "done" =>
        /\ aa_result.value = read_schwab_awards_all(aa_file, Some(C14_Sorted)).value
        /\ \A key \in PriceKeys(aa_result.value[1]) :
              aa_result.value[1][key[1]][key[2]] = C14_LastPrice(key[1], key[2])

(***************************************************************************)
(* C15.  A data row that is not entirely empty is in the list the reader   *)
(* returns (as its own transaction, or folded into its primary) or makes   *)
(* the read fail.  The Vanguard reader skips a row whose details match     *)
(* none of its patterns, and a row outside a section, with at most a log   *)
(* line: the read succeeds and the row is not in the list.                 *)
(***************************************************************************)
\* the rows of the report that start with a date
C15_DataRows ==
    {k \in 1..Len(vg_rows) :
        Len(vg_rows[k]) > 0 /\ vg_rows[k][1] \in DOMAIN StrpTime_dmY}

C15_NoRowDropped ==
    (vg_pc = "done" /\ vg_result.err = "") =>
        \A k \in C15_DataRows :
            \E i \in 1..Len(vg_result.value[1]) :
                vg_result.value[1][i].id = <<"vanguard", 0, k>>

(***************************************************************************)
(* C16.  decimal_from_number_or_str returns the value of the field         *)
(* <base><suffix> when the row has it and it is not None; otherwise the    *)
(* parsed value of the field <base> when the row has it and it is not      *)
(* None; otherwise 0.  A usable number field wins over the string field.   *)
(***************************************************************************)
\* the row has the field and it is not None
C16_Usable(field) == field \in DOMAIN dn_row /\ dn_row[field] # None

\* the numbers the strings of the rows stand for
C16_Parsed == ("5" :> 5) @@ ("$1,000" :> 1000)

C16_FieldPreference ==
    dn_pc = "done" =>
        IF C16_Usable(dn_basename \o dn_suffix)
        THEN dn_result = [err |-> "", value |-> dn_row[dn_basename \o dn_suffix]]
        ELSE IF C16_Usable(dn_basename)
        THEN IF dn_row[dn_basename][1] \in DOMAIN C16_Parsed
             THEN dn_result =
                     [err |-> "", value |-> Some(C16_Parsed[dn_row[dn_basename][1]])]
             ELSE dn_result.err = "InvalidOperation"
        ELSE dn_result = [err |-> "", value |-> Some(0)]

\* a number field that holds 0 next to a string field that holds "5"
C16_Witness ==
    /\ dn_pc = "done"
    /\ dn_suffix = "MySuffix"
    /\ C16_Usable("keyMySuffix")
    /\ dn_row["keyMySuffix"] = Some(0)
    /\ C16_Usable("keySortValue")
    /\ C16_Usable("key")
    /\ dn_row["key"] = Some("5")
    /\ dn_basename = "key"
    /\ dn_result.value = Some(0)

(***************************************************************************)
(* C17.  SchwabTransaction.create replaces the date and the price of a     *)
(* transaction by the date and price the award table's lookup returns if   *)
(* and only if the action is STOCK_ACTIVITY and the row has no price; the  *)
(* new date is then the reported date or up to 6 days before it; without   *)
(* a symbol, or without a price in that window, create raises and returns  *)
(* no transaction; any other transaction keeps the date and the price of   *)
(* its row.                                                                *)
(***************************************************************************)
\* the date the row reports
C17_Reported ==
    (("01/02/2024" :> 2) @@ ("01/08/2024" :> 8) @@ ("01/09/2024" :> 9)
     @@ ("01/03/2024 as of 01/02/2024" :> 2))[cr_row[1]]

\* the symbol the award table is asked for
C17_Symbol == IF cr_row[3] = "FB" THEN "META" ELSE cr_row[3]

\* the days of the window that have a price of the symbol
C17_Priced ==
    {d \in (C17_Reported - 6)..C17_Reported : HasPrice(cr_awards_prices, d, C17_Symbol)}

C17_Backfill ==
    cr_pc = "done" =>
        IF cr_row[2] = "Stock Plan Activity" /\ cr_row[6] = ""
        THEN IF cr_row[3] = ""
             THEN cr_result.err = "SymbolMissingError" /\ cr_result.value = None
             ELSE IF C17_Priced = {}
             THEN cr_result.err = "KeyError" /\ cr_result.value = None
             ELSE /\ cr_result.err = ""
                  /\ cr_result.value[1].date \in C17_Priced
                  /\ \A d \in C17_Priced : d <= cr_result.value[1].date
                  /\ cr_result.value[1].date <= C17_Reported
                  /\ C17_Reported - cr_result.value[1].date <= 6
                  /\ cr_result.value[1].price =
                        Some(<<cr_awards_prices[cr_result.value[1].date][C17_Symbol], 1>>)
        ELSE /\ cr_result.err = ""
             /\ cr_result.value[1].date = C17_Reported
             /\ cr_result.value[1].price =
                   (IF cr_row[6] = "" THEN None ELSE Some(<<5, 1>>))

\* a vest of FB reported for 2024-01-08 takes the price of META of 2024-01-02
C17_Witness ==
    /\ cr_pc = "done"
    /\ cr_row[1] = "01/08/2024"
    /\ cr_row[2] = "Stock Plan Activity"
    /\ cr_row[3] = "FB"
    /\ cr_row[6] = ""
    /\ cr_result.err = ""
    /\ cr_result.value[1].date = 2
    /\ cr_result.value[1].price = Some(<<20, 1>>)

(***************************************************************************)
(* C18.  When _unify_schwab_cash_merger_trxs returns, its output is the    *)
(* input without the adjustment rows: as many transactions as the input    *)
(* has rows that are no adjustment, in the order of the input, and each    *)
(* of them that is not a folded primary with all fields as in the input.   *)
(***************************************************************************)
\* the places of the input that hold no adjustment row
C18_Kept ==
    {i \in 1..Len(u_transactions) : u_transactions[i].raw_action # "Cash Merger Adj"}

\* the p-th of them
C18_Place(p) ==
    CHOOSE i \in C18_Kept : Cardinality({j \in C18_Kept : j <= i}) = p

\* the row at place i is followed by an adjustment row
C18_Folded(i) ==
    i < Len(u_transactions) /\ u_transactions[i + 1].raw_action = "Cash Merger Adj"

C18_UnifierFrame ==
    u_pc = "returned" =>
        /\ Len(u_result[1]) = Len(u_transactions) - Cardinality(
              {i \in 1..Len(u_transactions) :
                  u_transactions[i].raw_action = "Cash Merger Adj"})
        /\ \A p \in 1..Len(u_result[1]) :
              /\ u_result[1][p].id = u_transactions[C18_Place(p)].id
              /\ ~C18_Folded(C18_Place(p))
                    => u_result[1][p] = u_transactions[C18_Place(p)]

\* a sale, a primary and its adjustment: the sale is returned as it was
\* and the primary takes the place behind it
C18_Witness ==
    /\ u_pc = "returned"
    /\ Len(u_transactions) = 3
    /\ u_transactions[1].raw_action = "Sell"
    /\ u_transactions[3].raw_action = "Cash Merger Adj"
    /\ Len(u_result[1]) = 2
    /\ u_result[1][1] = u_transactions[1]
    /\ u_result[1][2].quantity = Some(40)

(***************************************************************************)
(* C19.  read_schwab_transactions runs the unifier on the rows of one file *)
(* in raw order: when it returns, every adjustment row directly follows a  *)
(* primary row of its own file, and the ledger holds that primary with the *)
(* adjustment folded in and no adjustment.  The ledger is ascending by     *)
(* date; of two transactions of one date, the one of the file processed    *)
(* earlier comes first, and of two of one file the one of the later row.   *)
(***************************************************************************)
\* the files in the order they are processed
C19_Files == FileList(rs_args.transactions_file, rs_args.transactions_folder)

\* the k-th line of the f-th file is an adjustment row
C19_Adjustment(f, k) ==
    /\ Len(C19_Files[f].lines[k]) >= 2
    /\ C19_Files[f].lines[k][2] = "Cash Merger Adj"

C19_Returned == rs_pc = "done" /\ rs_result.err = "" /\ rs_result.value # None

C19_Ledger == rs_result.value[1]

C19_SameFilePairing ==
    \A f \in 1..Len(C19_Files) : \A k \in 2..Len(C19_Files[f].lines) :
        C19_Adjustment(f, k) =>
            /\ k > 2
            /\ C19_Files[f].lines[k - 1][2] = "Cash Merger"
            /\ \E p \in 1..Len(C19_Ledger) :
                  /\ C19_Ledger[p].id = <<"schwab", f, k - 2>>
                  /\ C19_Ledger[p].quantity # None
            /\ \A p \in 1..Len(C19_Ledger) :
                  C19_Ledger[p].id # <<"schwab", f, k - 1>>

C19_Order ==
    \A p, q \in 1..Len(C19_Ledger) :
        p < q =>
            /\ C19_Ledger[p].date <= C19_Ledger[q].date
            /\ C19_Ledger[p].date = C19_Ledger[q].date =>
                  \/ C19_Ledger[p].id[2] < C19_Ledger[q].id[2]
                  \/ /\ C19_Ledger[p].id[2] = C19_Ledger[q].id[2]
                     /\ C19_Ledger[p].id[3] > C19_Ledger[q].id[3]

C19_PerFilePipelineOrder == C19_Returned => C19_SameFilePairing /\ C19_Order

\* a file of a primary and its adjustment and a folder file of two sales,
\* all of one date: the folded primary, then the second sale, then the first
C19_Witness ==
    /\ C19_Returned
    /\ Len(C19_Files) = 2
    /\ Len(C19_Files[1].lines) = 3
    /\ C19_Adjustment(1, 3)
    /\ Len(C19_Ledger) = 3
    /\ C19_Ledger[1].id = <<"schwab", 1, 1>>
    /\ C19_Ledger[1].quantity = Some(40)
    /\ C19_Ledger[2].id = <<"schwab", 2, 2>>
    /\ C19_Ledger[3].id = <<"schwab", 2, 1>>
    /\ C19_Ledger[1].date = C19_Ledger[3].date

====
